---- MODULE Spec2Model ----
(***************************************************************************)
(* Model of the game-chat / control-channel bridge bot (src/bot.js).       *)
(* The command authorization and dispatch pipeline is modelled from the    *)
(* variant that starts at src/bot.js:820 (GAME_ADMINS bypass): the policy  *)
(* table (CommandsManager), the record store (Database) and the handlers   *)
(* handlePlayerCommand / executeCommand.                                   *)
(*                                                                         *)
(* Time is the value of Date.now() in milliseconds relative to the start   *)
(* of the process.  A handler reads the clock once per Date.now() call in  *)
(* its code, and time may pass between two reads of one handler run.       *)
(***************************************************************************)
EXTENDS Integers, Sequences, FiniteSets, TLC

VARIABLES
    config,            \* commandsManager.config: allowedCommands, bannedCommands, ranks
    donators,          \* db.data.donators: handle -> record (the own keys)
    donatorsProto,     \* what the handlers changed on the prototype chain of
                       \* db.data.donators
    commandCooldowns,  \* db.data.commandCooldowns: handle -> record
    logs,              \* db.data.logs: the audit log
    stats,             \* db.data.stats
    now,               \* the value the latest Date.now() call returned
    chat,              \* lines passed to bot.chat by the latest handler call
    call,              \* arguments of the latest handlePlayerCommand call
    outcome,           \* return path taken by the latest handlePlayerCommand call
    appended,          \* number of addLog calls since the process started
    isOnline,          \* serverChecker.isOnline
    probes,            \* results of the probes made so far, oldest first
    probing,           \* updateStatus calls suspended at their probe
    transitions,       \* transitions logged by updateStatus, oldest first
    reconnectAttempts, \* the retry counter
    bot,               \* state of the session the variable bot refers to
    entity,            \* truth of bot?.entity
    orphans,           \* live sessions the variable bot no longer refers to
    timers,            \* pending setTimeout(createMCBot, ...) timers
    started,           \* initialize has run
    terminal,          \* the 'end' handler has logged the terminal failure
    ev,                \* what the latest connection handler did
    botState,          \* pendingPlayer, isCapturingGroups, foundGroups
    scans,             \* text handlers suspended at their reply, pending scan timeouts
                       \* in the order set,
                       \* buttons of the menus rendered so far
    tg                 \* what the latest control-channel handler did

conn == <<isOnline, probes, probing, transitions, reconnectAttempts, bot, entity, orphans,
          timers, started, terminal, ev>>

vars == <<config, donators, donatorsProto, commandCooldowns, logs, stats, now, chat, call, outcome, appended,
          isOnline, probes, probing, transitions, reconnectAttempts, bot, entity, orphans,
          timers, started, terminal, ev, botState, scans, tg>>

ctl == <<botState, scans, tg>>

pipeline == <<config, donators, donatorsProto, commandCooldowns, logs, stats, now, chat, call, outcome, appended>>

store == <<donators, donatorsProto, commandCooldowns, logs, stats>>

-----------------------------------------------------------------------------
(* Bounds of the exploration *)

MaxTime == 3
MaxAppends == 2
MaxProbes == 4
MaxPending == 2
MaxTgCalls == 4

\* operator actions explored next to the player commands
MaxOps == 2

\* milliseconds that may pass between two clock reads of one handler run
MaxGap == 1

\* the connection of the variant at src/bot.js:2105 next to its commands
\* and updates: probes made; 'end' events in a row without a spawn;
\* announcement timers pending at a spawn, and sessions and createMCBot
\* timers pending when the poll starts, both below MaxPendingAlt
MaxProbesAlt == 2
MaxEndsAlt == 1
MaxPendingAlt == 1

\* commands that are logged, updates and clock ticks in one behaviour of
\* SpecOpsAlt
MaxInputsOps == 3

-----------------------------------------------------------------------------
(* Program constants *)

GAME_ADMINS == {"voyagerplay", "Asadbek_Manager"}

LogCap == 1000

DefaultCooldownMs == 300000

MAX_RECONNECT == 20

ReconnectStepMs == 5000

ReconnectCapMs == 120000

DeferMs == 30000

\* config.tg.adminId, the operator named by the environment
TgAdminId == 1

-----------------------------------------------------------------------------
(* Inputs: speakers, command names as typed, argument strings (already     *)
(* trimmed, as a sequence of the tokens that args.split(' ') yields; the   *)
(* empty string is the empty sequence).                                    *)

Players == {"voyagerplay", "Alice", "Bob", "constructor"}

RawNames == {"heal", "HEAL", "give", "say", "op", "kit"}

ArgsSet == {<<>>, <<"diamond", "5">>}

AliceRanks == {"VIP", "GOLD"}

\* String.prototype.toLowerCase on the names that occur in this model
ToLower(s) ==
    CASE s = "HEAL" -> "heal"
      [] s = "Give" -> "give"
      [] s = "Default" -> "default"
      [] s = "Groups" -> "groups"
      [] s = "toString" -> "tostring"
      [] OTHER -> s

Null == [null |-> TRUE]

\* names of members of Object.prototype that occur in this model: reading
\* table[key] on an object parsed from JSON yields the inherited member
\* when the table has no own entry under such a key
ProtoKeys == {"constructor", "toString", "__proto__"}

\* an inherited member: truthy, and every field the code reads is undefined
Inherited == [inherited |-> TRUE]

\* table[key] || null
Lookup(table, key) ==
    IF key \in DOMAIN table THEN table[key]
    ELSE IF key \in ProtoKeys THEN Inherited
    ELSE Null

\* rec.field, the string "undefined" standing for a missing field
FieldOr(rec, field, dflt) == IF field \in DOMAIN rec THEN rec[field] ELSE dflt

\* Number.NaN: no number the handlers compute is negative, and every
\* comparison with NaN is false
NaN == -1

\* the time that may pass between two clock reads
Gaps == 0..MaxGap

Max(a, b) == IF a >= b THEN a ELSE b

\* Math.ceil(a / b) for a >= 0, b > 0
CeilDiv(a, b) == (a + b - 1) \div b

\* variant: slice(0, n), which keeps the oldest entries
SliceFirst(s, n) == IF Len(s) <= n THEN s ELSE SubSeq(s, 1, n)

\* Array.prototype.slice(-n)
SliceLast(s, n) == IF Len(s) <= n THEN s ELSE SubSeq(s, Len(s) - n + 1, Len(s))

-----------------------------------------------------------------------------
(* Policy documents (commands.json) the process may have loaded *)

PolicyPlain ==
    [ allowedCommands |->
        [ c \in {"heal", "give", "say"} |->
            CASE c = "heal" -> [enabled |-> TRUE, requiredRank |-> "VIP", cooldown |-> 2]
              [] c = "give" -> [enabled |-> TRUE, requiredRank |-> "PREMIUM", cooldown |-> 3]
              [] c = "say"  -> [enabled |-> TRUE, requiredRank |-> "VIP", cooldown |-> 1] ],
      bannedCommands |->
        [ c \in {"op"} |-> [blocked |-> TRUE, reason |-> "operator rights"] ],
      ranks |->
        [ r \in {"VIP", "PREMIUM"} |-> [level |-> IF r = "VIP" THEN 1 ELSE 2] ] ]

\* a document without the ranks table: loadCommands reads only the other two
PolicyNoRanks ==
    [ allowedCommands |-> PolicyPlain.allowedCommands,
      bannedCommands |-> PolicyPlain.bannedCommands ]

\* heal is both enabled and blocked; give names a required rank the ranks
\* table does not hold and has no cooldown field; say is disabled; kit is
\* enabled but executeCommand has no case for it; op is listed, not blocked.
PolicyOverlap ==
    [ allowedCommands |->
        [ c \in {"heal", "give", "say", "kit"} |->
            CASE c = "heal" -> [enabled |-> TRUE, requiredRank |-> "VIP", cooldown |-> 2]
              [] c = "give" -> [enabled |-> TRUE, requiredRank |-> "MYSTERY"]
              [] c = "say"  -> [enabled |-> FALSE, requiredRank |-> "VIP", cooldown |-> 1]
              [] c = "kit"  -> [enabled |-> TRUE, requiredRank |-> "VIP", cooldown |-> 2] ],
      bannedCommands |->
        [ c \in {"heal", "op"} |->
            IF c = "heal" THEN [blocked |-> TRUE, reason |-> "abuse"]
                          ELSE [blocked |-> FALSE, reason |-> "lifted"] ],
      ranks |->
        [ r \in {"VIP", "PREMIUM"} |-> [level |-> IF r = "VIP" THEN 1 ELSE 2] ] ]

Policies == {PolicyPlain, PolicyOverlap}

\* a document whose ranks table holds the tier ADMIN, required by say
PolicyAdminRank ==
    [ allowedCommands |->
        [ c \in {"heal", "say"} |->
            IF c = "heal" THEN [enabled |-> TRUE, requiredRank |-> "VIP", cooldown |-> 2]
            ELSE [enabled |-> TRUE, requiredRank |-> "ADMIN", cooldown |-> 1] ],
      bannedCommands |-> PolicyPlain.bannedCommands,
      ranks |->
        [ r \in {"VIP", "PREMIUM", "ADMIN"} |->
            [level |-> CASE r = "VIP" -> 1 [] r = "PREMIUM" -> 2 [] OTHER -> 3] ] ]

\* a document whose cooldown fields are zero, negative and absent
PolicyCooldowns ==
    [ allowedCommands |->
        [ c \in {"heal", "give", "say"} |->
            CASE c = "heal" -> [enabled |-> TRUE, requiredRank |-> "VIP", cooldown |-> 0]
              [] c = "give" -> [enabled |-> TRUE, requiredRank |-> "VIP", cooldown |-> -1]
              [] c = "say"  -> [enabled |-> TRUE, requiredRank |-> "VIP"] ],
      bannedCommands |-> PolicyPlain.bannedCommands,
      ranks |-> PolicyPlain.ranks ]

-----------------------------------------------------------------------------
(* CommandsManager *)

\* variant: an entry counts as allowed whatever its enabled flag
isCommandAllowed_AnyEntry(commandName) ==
    ToLower(commandName) \in DOMAIN config.allowedCommands

isCommandAllowed(commandName) ==
    LET k == ToLower(commandName) IN
    /\ k \in DOMAIN config.allowedCommands
    /\ config.allowedCommands[k].enabled = TRUE

\* variant: an enabled policy entry overrides the blocked table
\* variant: an entry counts whatever its blocked flag
isCommandBanned_AnyEntry(commandName) ==
    ToLower(commandName) \in DOMAIN config.bannedCommands

isCommandBanned_UnlessAllowed(commandName) ==
    LET k == ToLower(commandName) IN
    /\ k \in DOMAIN config.bannedCommands
    /\ config.bannedCommands[k].blocked = TRUE
    /\ ~(k \in DOMAIN config.allowedCommands /\ config.allowedCommands[k].enabled = TRUE)

isCommandBanned(commandName) ==
    LET k == ToLower(commandName) IN
    /\ k \in DOMAIN config.bannedCommands
    /\ config.bannedCommands[k].blocked = TRUE

getCommandInfo(commandName) == Lookup(config.allowedCommands, ToLower(commandName))

getBannedCommandInfo(commandName) == Lookup(config.bannedCommands, ToLower(commandName))

\* this.config.ranks[rank] raises a TypeError when the document has no
\* ranks table
getRankLevelRaises == "ranks" \notin DOMAIN config

\* this.config.ranks[rank]?.level || 0: an inherited member has no level
getRankLevel(rank) ==
    IF rank \in DOMAIN config.ranks THEN config.ranks[rank].level ELSE 0

\* variant: the comparison is strict
canRankUseCommand_Strict(rank, command) ==
    LET cmdInfo == getCommandInfo(command) IN
    IF cmdInfo = Null THEN FALSE
    ELSE getRankLevel(rank) > getRankLevel(FieldOr(cmdInfo, "requiredRank", "undefined"))

canRankUseCommand(rank, command) ==
    LET cmdInfo == getCommandInfo(command) IN
    IF cmdInfo = Null THEN FALSE
    ELSE getRankLevel(rank) >= getRankLevel(FieldOr(cmdInfo, "requiredRank", "undefined"))

-----------------------------------------------------------------------------
(* Database *)

\* the entry addLog pushes when its Date.now() returns t
LogEntry(playerName, command, allowed, reason, t) ==
    [timestamp |-> t, player |-> playerName, command |-> command,
     allowed |-> allowed, reason |-> reason]

\* the value of db.data.logs after addLog on the log lg, the clock read at t
addLog(lg, playerName, command, allowed, reason, t) ==
    LET pushed == Append(lg, LogEntry(playerName, command, allowed, reason, t)) IN
    IF Len(pushed) > LogCap THEN SliceLast(pushed, LogCap) ELSE pushed

\* variant: a missing record reads as an empty record instead of null
getDonator_EmptyRecord(username) ==
    IF username \in DOMAIN donators THEN donators[username]
    ELSE [rank |-> "undefined", joinedAt |-> 0]

\* the prototype chain of db.data.donators right after JSON.parse: the
\* prototype is Object.prototype, and no handler has set isAdmin on it or
\* on one of its members
PlainChain == [proto |-> Null, flags |-> [k \in {} |-> FALSE]]

\* f with x mapped to v
Extended(f, x, v) == [k \in DOMAIN f \cup {x} |-> IF k = x THEN v ELSE f[k]]

\* an inherited member whose isAdmin property reads as the flag set on the
\* member itself, else as the one set on Object.prototype, else as undefined
InheritedMember(owner) ==
    IF owner \in DOMAIN donatorsProto.flags
    THEN [inherited |-> TRUE, isAdmin |-> donatorsProto.flags[owner]]
    ELSE IF "Object.prototype" \in DOMAIN donatorsProto.flags
    THEN [inherited |-> TRUE, isAdmin |-> donatorsProto.flags["Object.prototype"]]
    ELSE Inherited

\* Database.getDonator: this.data.donators[username] || null.  The key
\* "__proto__" reads the prototype of the object: Object.prototype, or the
\* record an assignment to that key has put in its place.
getDonator(username) ==
    IF username \in DOMAIN donators THEN donators[username]
    ELSE IF username = "__proto__" THEN
         IF donatorsProto.proto # Null THEN donatorsProto.proto
         ELSE InheritedMember("Object.prototype")
    ELSE IF username \in ProtoKeys THEN InheritedMember(username)
    ELSE Null

\* variant: the expiry is the bare duration, without the current time
\* variant: one record for the whole store
setCooldown_Single(cds, username, info, t1, t2) ==
    LET cooldownMs == IF "cooldown" \in DOMAIN info THEN info.cooldown
                      ELSE DefaultCooldownMs
    IN [u \in {username} |-> [lastCommand |-> t1, expiresAt |-> t2 + cooldownMs]]

setCooldown_NoBase(cds, username, info, t1, t2) ==
    LET cooldownMs == IF "cooldown" \in DOMAIN info THEN info.cooldown
                      ELSE DefaultCooldownMs
        rec == [lastCommand |-> t1, expiresAt |-> cooldownMs]
    IN [u \in DOMAIN cds \cup {username} |-> IF u = username THEN rec ELSE cds[u]]

\* the value of db.data.commandCooldowns after setCooldown on the map cds;
\* info is the policy entry whose cooldown field is passed (the parameter
\* default applies when the field is missing); the record is built with two
\* clock reads, t1 for lastCommand and t2 for expiresAt
setCooldown(cds, username, info, t1, t2) ==
    LET cooldownMs == IF "cooldown" \in DOMAIN info THEN info.cooldown
                      ELSE DefaultCooldownMs
        rec == [lastCommand |-> t1, expiresAt |-> t2 + cooldownMs]
    IN [u \in DOMAIN cds \cup {username} |-> IF u = username THEN rec ELSE cds[u]]

\* isOnCooldown reads the clock when commandCooldowns[username] is truthy
ReadsClock(username) == Lookup(commandCooldowns, username) # Null

\* return value of isOnCooldown, the clock read at t; an inherited member
\* has no expiresAt, and t > undefined is false
isOnCooldown(username, t) ==
    LET cooldown == Lookup(commandCooldowns, username) IN
    IF cooldown = Null THEN FALSE
    ELSE IF cooldown = Inherited THEN TRUE
    ELSE IF t > cooldown.expiresAt THEN FALSE
    ELSE TRUE

\* the value of db.data.commandCooldowns after isOnCooldown (lazy delete)
CooldownsAfterCheck(username, t) ==
    IF username \in DOMAIN commandCooldowns
       /\ t > commandCooldowns[username].expiresAt
    THEN [u \in DOMAIN commandCooldowns \ {username} |-> commandCooldowns[u]]
    ELSE commandCooldowns

\* return value of getCooldownTimeLeft, the clock read at t:
\* Math.max(0, undefined - t) is NaN for an inherited member
getCooldownTimeLeft(username, t) ==
    LET cooldown == Lookup(commandCooldowns, username) IN
    IF cooldown = Null THEN 0
    ELSE IF cooldown = Inherited THEN NaN
    ELSE Max(0, cooldown.expiresAt - t)

-----------------------------------------------------------------------------
(* Outbound chat lines.  kind is "effect" for a line that acts on the game *)
(* server (a slash command or a broadcast text), "confirm" for the notice  *)
(* that follows an effect and "error" for a refusal or usage reply.  a1    *)
(* and a2 are the words the line interpolates, whole the argument string    *)
(* (its tokens) when the line interpolates all of it.                       *)

Line(kind, text, who, a1, a2) ==
    [kind |-> kind, text |-> text, who |-> who, a1 |-> a1, a2 |-> a2, whole |-> << >>,
     n1 |-> 0, n2 |-> 0]

\* a line that interpolates the whole argument string
WholeLine(kind, text, who, args) ==
    [kind |-> kind, text |-> text, who |-> who, a1 |-> "", a2 |-> "", whole |-> args,
     n1 |-> 0, n2 |-> 0]

WaitLine(who, minutes, seconds) ==
    [kind |-> "error", text |-> "wait", who |-> who, a1 |-> "", a2 |-> "", whole |-> << >>,
     n1 |-> minutes, n2 |-> seconds]

\* args.split(' ') destructured as [first, second = dflt]
First(args) == args[1]
SecondOr(args, dflt) == IF Len(args) >= 2 THEN args[2] ELSE dflt
\* args || dflt, for the commands that pass the whole string on
WholeOr(args, dflt) == IF args = <<>> THEN <<dflt>> ELSE args

\* the lines executeCommand passes to bot.chat, in order
executeCommand(playerName, command, args, rank) ==
    LET isAdmin == rank = "ADMIN"
        ownerOnly == << Line("error", "owner only", playerName, "", "") >>
    IN
    CASE command = "give" ->
           IF args = <<>> THEN << Line("error", "usage give", playerName, "", "") >>
           ELSE << Line("effect", "/give", playerName, First(args), SecondOr(args, "1")),
                   Line("confirm", "given", playerName, First(args), SecondOr(args, "1")) >>
      [] command = "heal" ->
           << Line("effect", "/effect give instant_health", playerName, "", ""),
              Line("confirm", "healed", playerName, "", "") >>
      [] command = "tpall" ->
           << Line("effect", "/execute teleport", playerName, "", ""),
              Line("confirm", "teleported", playerName, "", "") >>
      [] command = "gamemode" ->
           << WholeLine("effect", "/gamemode", playerName, WholeOr(args, "creative")),
              WholeLine("confirm", "gamemode", playerName, WholeOr(args, "creative")) >>
      [] command = "effect" ->
           IF args = <<>> THEN << Line("error", "usage effect", playerName, "", "") >>
           ELSE << Line("effect", "/effect give", playerName, First(args), SecondOr(args, "1")),
                   Line("confirm", "effect applied", playerName, "", "") >>
      [] command = "fly" ->
           << Line("effect", "/ability mayfly", playerName, "", ""),
              Line("confirm", "fly", playerName, "", "") >>
      [] command = "speed" ->
           << WholeLine("effect", "/effect give speed", playerName, WholeOr(args, "2")),
              Line("confirm", "speed", playerName, "", "") >>
      [] command = "say" ->
           IF ~isAdmin THEN ownerOnly
           ELSE IF args = <<>> THEN << Line("error", "usage say", playerName, "", "") >>
           ELSE << WholeLine("effect", "say", playerName, args) >>
      [] command = "clear" ->
           IF ~isAdmin THEN ownerOnly
           ELSE << Line("effect", "/clear", playerName, "", ""),
                   Line("confirm", "cleared", playerName, "", "") >>
      [] command = "weather" ->
           IF ~isAdmin THEN ownerOnly
           ELSE << WholeLine("effect", "/weather", playerName, WholeOr(args, "clear")),
                   Line("confirm", "weather", playerName, "", "") >>
      [] command = "time" ->
           IF ~isAdmin THEN ownerOnly
           ELSE << WholeLine("effect", "/time set", playerName, WholeOr(args, "12000")),
                   Line("confirm", "time", playerName, "", "") >>
      [] command = "broadcast" ->
           IF ~isAdmin THEN ownerOnly
           ELSE IF args = <<>> THEN << Line("error", "usage broadcast", playerName, "", "") >>
           ELSE << WholeLine("effect", "broadcast", playerName, args) >>
      [] OTHER ->
           << Line("error", "unknown command", playerName, command, "") >>

-----------------------------------------------------------------------------
(* handlePlayerCommand.  Reply texts and audit reasons stand for the        *)
(* source's literal strings, rendered in English: "NOT A DONATOR",          *)
(* "BLACKLISTED", "UNKNOWN COMMAND", "INSUFFICIENT RIGHTS" and "SUCCESS"    *)
(* are the five reasons passed to db.addLog.                                *)

Result(path, timeLeft) == [path |-> path, timeLeft |-> timeLeft]

\* variant: an administrator must also hold a donator record
isGameAdmin_NeedsRecord(playerName) ==
    playerName \in GAME_ADMINS /\ playerName \in DOMAIN donators

\* GAME_ADMINS.includes(playerName)
isGameAdmin(playerName) == playerName \in GAME_ADMINS

\* variant: a rejection starts the default cooldown of the speaker
Reject_SetsCooldown(playerName, command, text, path, reason) ==
    /\ chat' = << Line("error", text, playerName, command, "") >>
    /\ logs' = addLog(logs, playerName, command, FALSE, reason, now)
    /\ appended' = appended + 1
    /\ outcome' = Result(path, 0)
    /\ commandCooldowns' = setCooldown(commandCooldowns, playerName, << >>, now, now)
    /\ UNCHANGED <<donators, donatorsProto, stats, now>>

\* variant: every rejection counts as a blocked attempt
Reject_Counted(playerName, command, text, path, reason) ==
    /\ chat' = << Line("error", text, playerName, command, "") >>
    /\ logs' = addLog(logs, playerName, command, FALSE, reason, now)
    /\ appended' = appended + 1
    /\ outcome' = Result(path, 0)
    /\ stats' = [stats EXCEPT !.blockedAttempts = @ + 1]
    /\ UNCHANGED <<donators, donatorsProto, commandCooldowns, now>>

\* a rejection that writes one audit entry and nothing else; the clock is
\* read once, by addLog
Reject(playerName, command, text, path, reason) ==
    /\ chat' = << Line("error", text, playerName, command, "") >>
    /\ logs' = addLog(logs, playerName, command, FALSE, reason, now)
    /\ appended' = appended + 1
    /\ outcome' = Result(path, 0)
    /\ UNCHANGED <<donators, donatorsProto, commandCooldowns, stats, now>>

\* the arguments of a handlePlayerCommand call that started when the clock
\* read now and made its last clock read at done
Call(playerName, command, args, done) ==
    [player |-> playerName, command |-> command, args |-> args, at |-> now, done |-> done]

\* handlePlayerCommand.  The clock is read by isOnCooldown when the speaker
\* has a cooldown entry, by getCooldownTimeLeft, twice by setCooldown and
\* once by addLog; the first read of a run returns now.
HandlePlayerCommand(playerName, command, args) ==
    LET isAdmin == isGameAdmin(playerName)
        donator == getDonator(playerName)
        cmdInfo == getCommandInfo(command)
    IN
    /\ appended < MaxAppends
    /\ UNCHANGED config
    /\ IF isAdmin THEN
          /\ chat' = executeCommand(playerName, command, args, "ADMIN")
          /\ outcome' = Result("admin", 0)
          /\ call' = Call(playerName, command, args, now)
          /\ UNCHANGED <<donators, donatorsProto, commandCooldowns, logs, stats, appended, now>>
       ELSE IF donator = Null THEN
          /\ Reject(playerName, command, "donators only", "not a donator", "NOT A DONATOR")
          /\ call' = Call(playerName, command, args, now)
       ELSE IF isCommandBanned(command) THEN
          /\ chat' = << Line("error", "forbidden", playerName, command,
                             getBannedCommandInfo(command).reason) >>
          /\ logs' = addLog(logs, playerName, command, FALSE, "BLACKLISTED", now)
          /\ appended' = appended + 1
          /\ stats' = [stats EXCEPT !.blockedAttempts = @ + 1]
          /\ outcome' = Result("blocked", 0)
          /\ call' = Call(playerName, command, args, now)
          /\ UNCHANGED <<donators, donatorsProto, commandCooldowns, now>>
       ELSE IF ~isCommandAllowed(command) THEN
          /\ Reject(playerName, command, "unknown command", "unknown command",
                    "UNKNOWN COMMAND")
          /\ call' = Call(playerName, command, args, now)
       ELSE IF getRankLevelRaises THEN
          /\ chat' = << >>
          /\ outcome' = Result("error", 0)
          /\ call' = Call(playerName, command, args, now)
          /\ UNCHANGED <<donators, donatorsProto, commandCooldowns, logs, stats, appended, now>>
       ELSE IF ~canRankUseCommand(FieldOr(donator, "rank", "undefined"), command) THEN
          /\ Reject(playerName, command, "rank too low", "insufficient rank",
                    "INSUFFICIENT RIGHTS")
          /\ call' = Call(playerName, command, args, now)
       ELSE IF isOnCooldown(playerName, now) THEN
          \E gap \in Gaps :
             LET read == now + gap
                 left == getCooldownTimeLeft(playerName, read)
                 timeLeft == IF left = NaN THEN NaN ELSE CeilDiv(left, 1000)
             IN
             /\ read <= MaxTime
             /\ chat' = << IF timeLeft = NaN THEN WaitLine(playerName, NaN, NaN)
                           ELSE WaitLine(playerName, timeLeft \div 60, timeLeft % 60) >>
             /\ outcome' = Result("on cooldown", left)
             /\ now' = read
             /\ call' = Call(playerName, command, args, read)
             /\ UNCHANGED <<donators, donatorsProto, commandCooldowns, logs, stats, appended>>
       ELSE
          \E gap1 \in (IF ReadsClock(playerName) THEN Gaps ELSE {0}), gap2, gap3 \in Gaps :
             LET read1 == now + gap1
                 read2 == read1 + gap2
                 read3 == read2 + gap3
             IN
             /\ read3 <= MaxTime
             /\ chat' = executeCommand(playerName, command, args, FieldOr(donator, "rank", "undefined"))
             /\ commandCooldowns' = setCooldown(CooldownsAfterCheck(playerName, now),
                                                playerName, cmdInfo, read1, read2)
             /\ stats' = [stats EXCEPT !.totalCommands = @ + 1]
             /\ logs' = addLog(logs, playerName, command, TRUE, "SUCCESS", read3)
             /\ appended' = appended + 1
             /\ outcome' = Result("accepted", 0)
             /\ now' = read3
             /\ call' = Call(playerName, command, args, read3)
             /\ UNCHANGED <<donators, donatorsProto>>

\* variant: the error leaves the listener although the body is inside try/catch
AfterMessage_Unguarded(guarded, raised) == IF raised THEN "crashed" ELSE bot

\* the session after one run of a 'message' handler: an error raised inside
\* try/catch is logged there; an error that leaves the listener is an
\* uncaught exception, which ends the process
AfterMessage(guarded, raised) == IF raised /\ ~guarded THEN "crashed" ELSE bot

\* a spawned session exists that can deliver a chat line: the one the
\* variable bot refers to or one it no longer refers to, whose listener
\* still runs and calls bot.chat on the session created last
Spawned == bot = "connected" \/ orphans.connected > 0

\* the 'message' handler on a line of the shape <speaker> !name args, the
\* speaker drawn from speakers, the name from names and the arguments from
\* argLists; its whole body is inside try/catch
CommandLine(speakers, names, argLists) ==
    /\ Spawned
    /\ \E playerName \in speakers, raw \in names, args \in argLists :
          HandlePlayerCommand(playerName, ToLower(raw), args)
    /\ bot' = AfterMessage(TRUE, outcome'.path = "error")
    /\ entity' = (entity /\ bot' # "crashed")
    /\ UNCHANGED <<isOnline, probes, probing, transitions, reconnectAttempts, orphans, timers,
                   started, terminal, ev>>
    /\ UNCHANGED ctl

OnCommandLine == CommandLine(Players, RawNames, ArgsSet)

\* the clock advances between handler calls
Tick ==
    /\ now < MaxTime
    /\ now' = now + 1
    /\ UNCHANGED <<config, donators, donatorsProto, commandCooldowns, logs, stats, chat, call, outcome, appended>>
    /\ UNCHANGED <<conn, ctl>>

-----------------------------------------------------------------------------
(* ServerChecker and the game session.  A session is "connecting" from     *)
(* mineflayer.createBot until its 'spawn' event, "connected" until its     *)
(* 'end' event.  The variable bot refers to the session created last;      *)
(* sessions created before it that have not ended are counted in orphans.  *)
(* Pending timers are counted by kind (reconnect and defer call            *)
(* createMCBot, announce is the timer of the 'spawn' handler); any pending  *)
(* timer may be the next to fire.  createBot reports connection failures through the 'error'     *)
(* and 'end' events, so the catch branch of createMCBot is not taken.      *)

Min(a, b) == IF a <= b THEN a ELSE b

LiveStates == {"connecting", "connected"}

\* what one run of a handler did: whether it called createMCBot, whether a
\* session was created, how many timers it set and with which delay, which
\* Telegram message it sent to the operator and about which player; was is
\* the retry counter on entry
Ev(kind, called, created, scheduled, delay, notified) ==
    [kind |-> kind, called |-> called, created |-> created,
     scheduled |-> scheduled, delay |-> delay, notified |-> notified,
     who |-> "", was |-> reconnectAttempts]

\* number of sessions that were created and have not ended
LiveCount ==
    (IF bot \in LiveStates THEN 1 ELSE 0) + orphans.connecting + orphans.connected

PendingCount == LiveCount + timers.reconnect + timers.defer

TransitionLogged_EveryFailure(w, r) ==
    IF ~w /\ r THEN "online"
    ELSE IF ~r THEN "offline"
    ELSE "none"

\* what updateStatus logs for a probe result r when the stored status was w
TransitionLogged(w, r) ==
    IF ~w /\ r THEN "online"
    ELSE IF w /\ ~r THEN "offline"
    ELSE "none"

\* ServerChecker.updateStatus up to its await, called by the handler by:
\* wasOnline is read and check() opens the probe socket
updateStatusCall(by) ==
    probing' = Append(probing, [by |-> by, wasOnline |-> isOnline])

\* ServerChecker.updateStatus after its await: the probe of the suspended
\* call p has settled with result r (the socket connected, failed, or the
\* 5000 ms timer of check() fired)
updateStatus(p, r) ==
    /\ isOnline' = r
    /\ probes' = Append(probes, r)
    /\ probing' = Tail(probing)
    /\ transitions' =
         IF TransitionLogged(p.wasOnline, r) = "none" THEN transitions
         ELSE Append(transitions, TransitionLogged(p.wasOnline, r))

createMCBot_AlwaysDefers(kind, online, tm) ==
    /\ timers' = [tm EXCEPT !.defer = @ + 1]
    /\ ev' = Ev(kind, TRUE, FALSE, 1, DeferMs, "none")
    /\ UNCHANGED <<bot, entity, orphans>>

\* createMCBot called by the handler kind when the stored status is online
\* and tm are the timers still pending
createMCBot(kind, online, tm) ==
    IF ~online THEN
       /\ timers' = [tm EXCEPT !.defer = @ + 1]
       /\ ev' = Ev(kind, TRUE, FALSE, 1, DeferMs, "none")
       /\ UNCHANGED <<bot, entity, orphans>>
    ELSE
       /\ bot' = "connecting"
       /\ entity' = FALSE
       /\ orphans' = IF bot \in LiveStates THEN [orphans EXCEPT ![bot] = @ + 1] ELSE orphans
       /\ timers' = tm
       /\ ev' = Ev(kind, TRUE, TRUE, 0, 0, "none")

\* initialize up to its await: the poll is registered and the first probe
\* is started
Startup ==
    /\ ~started
    /\ started' = TRUE
    /\ updateStatusCall("startup")
    /\ ev' = Ev("probe", FALSE, FALSE, 0, 0, "none")
    /\ UNCHANGED <<isOnline, probes, transitions, reconnectAttempts, bot, entity, orphans,
                   timers, terminal>>
    /\ UNCHANGED <<pipeline, ctl>>

\* initialize after its await: createMCBot when the first probe succeeded
StartupResume ==
    /\ probing # << >>
    /\ Head(probing).by = "startup"
    /\ \E r \in BOOLEAN :
          /\ updateStatus(Head(probing), r)
          /\ IF r THEN createMCBot("startup", r, timers)
             ELSE /\ ev' = Ev("startup", FALSE, FALSE, 0, 0, "none")
                  /\ UNCHANGED <<bot, entity, orphans, timers>>
    /\ UNCHANGED <<reconnectAttempts, started, terminal>>
    /\ UNCHANGED <<pipeline, ctl>>

\* the setInterval callback of initialize up to its await.  The interval is
\* 30000 ms and a probe settles within 5000 ms, so the callback starts when
\* no earlier probe is pending.
Poll ==
    /\ started
    /\ probing = << >>
    /\ Len(probes) < MaxProbes
    /\ updateStatusCall("poll")
    /\ ev' = Ev("probe", FALSE, FALSE, 0, 0, "none")
    /\ UNCHANGED <<isOnline, probes, transitions, reconnectAttempts, bot, entity, orphans,
                   timers, started, terminal>>
    /\ UNCHANGED <<pipeline, ctl>>

\* the setInterval callback after its await: the status is written, then
\* bot?.entity is read and createMCBot called when the session has none
PollResume ==
    /\ probing # << >>
    /\ Head(probing).by = "poll"
    /\ \E r \in BOOLEAN :
          /\ updateStatus(Head(probing), r)
          /\ IF r /\ ~entity
             THEN /\ PendingCount < MaxPending
                  /\ createMCBot("poll", r, timers)
             ELSE /\ ev' = Ev("poll", FALSE, FALSE, 0, 0, "none")
                  /\ UNCHANGED <<bot, entity, orphans, timers>>
    /\ UNCHANGED <<reconnectAttempts, started, terminal>>
    /\ UNCHANGED <<pipeline, ctl>>

\* a timer set by setTimeout(createMCBot, ...) fires
TimerFire ==
    /\ \E k \in {"reconnect", "defer"} :
          /\ timers[k] > 0
          /\ createMCBot("timer", isOnline, [timers EXCEPT ![k] = @ - 1])
    /\ UNCHANGED <<isOnline, probes, probing, transitions, reconnectAttempts, started, terminal>>
    /\ UNCHANGED <<pipeline, ctl>>

\* the Telegram message the 'spawn' handler sends to the operator
SpawnNotification == "connected"

\* the delay of the timer the 'spawn' handler sets
AnnounceMs == 2000

Spawn_KeepsCounter ==
    /\ bot \in LiveStates
    /\ timers.announce < MaxPending
    /\ bot' = "connected"
    /\ entity' = TRUE
    /\ timers' = [timers EXCEPT !.announce = @ + 1]
    /\ ev' = Ev("spawn", FALSE, FALSE, 1, AnnounceMs, SpawnNotification)
    /\ UNCHANGED <<isOnline, probes, probing, transitions, started, terminal, orphans,
                   reconnectAttempts>>
    /\ UNCHANGED <<pipeline, ctl>>

\* the 'spawn' event of a live session: of the one bot refers to, or of an
\* orphan.  The handler resets the retry counter, sets the timer of the
\* announcement and tells the operator.
Spawn ==
    /\ timers.announce < MaxPending
    /\ \/ /\ bot \in LiveStates
          /\ bot' = "connected"
          /\ entity' = TRUE
          /\ UNCHANGED orphans
       \/ /\ orphans.connecting > 0
          /\ orphans' = [connecting |-> orphans.connecting - 1,
                         connected |-> orphans.connected + 1]
          /\ UNCHANGED <<bot, entity>>
       \/ /\ orphans.connected > 0
          /\ UNCHANGED <<bot, entity, orphans>>
    /\ reconnectAttempts' = 0
    /\ timers' = [timers EXCEPT !.announce = @ + 1]
    /\ ev' = Ev("spawn", FALSE, FALSE, 1, AnnounceMs, SpawnNotification)
    /\ UNCHANGED <<isOnline, probes, probing, transitions, started, terminal>>
    /\ UNCHANGED <<pipeline, ctl>>

\* the callback of the timer the 'spawn' handler set: the announcement is
\* passed to bot.chat of the session the variable bot refers to when the
\* timer fires.  What the library does with a line passed to a session that
\* is not connected is not part of this model.
Announce ==
    /\ timers.announce > 0
    /\ timers' = [timers EXCEPT !.announce = @ - 1]
    /\ chat' = << Line("notice", "activated", "", "", "") >>
    /\ ev' = Ev("announce", FALSE, FALSE, 0, 0, "none")
    /\ UNCHANGED <<isOnline, probes, probing, transitions, reconnectAttempts, bot, entity,
                   orphans, started, terminal>>
    /\ UNCHANGED <<config, donators, donatorsProto, commandCooldowns, logs, stats, now, call,
                   outcome, appended>>
    /\ UNCHANGED ctl

\* config.mc.username, the name the sessions log in with
BotName == "Asadbek_Manager"

\* the players whose arrival a session reports
JoinNames == {"Alice", "voyagerplay", "constructor", BotName}

\* the greeting of the 'playerJoined' listener
Greeting(username) ==
    LET donator == getDonator(username) IN
    Line("greeting", "welcome", username,
         IF isGameAdmin(username) THEN "owner"
         ELSE IF donator # Null THEN FieldOr(donator, "rank", "undefined")
         ELSE "",
         "")

\* the 'playerJoined' listener of a live session: nothing for the bot's own
\* name, else the greeting is passed to bot.chat and the operator is told
PlayerJoined(username) ==
    /\ LiveCount > 0
    /\ IF username = BotName
       THEN /\ chat' = << >>
            /\ ev' = [Ev("joined", FALSE, FALSE, 0, 0, "none") EXCEPT !.who = username]
       ELSE /\ chat' = << Greeting(username) >>
            /\ ev' = [Ev("joined", FALSE, FALSE, 0, 0,
                          IF isGameAdmin(username) THEN "owner joined"
                          ELSE "player joined")
                        EXCEPT !.who = username]
    /\ UNCHANGED <<isOnline, probes, probing, transitions, reconnectAttempts, bot, entity,
                   orphans, timers, started, terminal>>
    /\ UNCHANGED <<config, donators, donatorsProto, commandCooldowns, logs, stats, now, call,
                   outcome, appended>>
    /\ UNCHANGED ctl

OnPlayerJoined == \E username \in JoinNames : PlayerJoined(username)

\* Math.min(5000 * reconnectAttempts, 120000)
ReconnectDelay(n) == Min(ReconnectStepMs * n, ReconnectCapMs)

\* the Telegram message the 'end' handler sends to the operator: none in
\* either branch
EndNotification(atCeiling) == "none"

\* the 'end' event of a live session.  Whether the library keeps the entity
\* of an ended session is left open.
End ==
    /\ \/ /\ bot \in LiveStates
          /\ bot' = "ended"
          /\ entity' \in {entity, FALSE}
          /\ UNCHANGED orphans
       \/ \E st \in LiveStates :
             /\ orphans[st] > 0
             /\ orphans' = [orphans EXCEPT ![st] = @ - 1]
             /\ UNCHANGED <<bot, entity>>
    /\ IF reconnectAttempts < MAX_RECONNECT
       THEN /\ reconnectAttempts' = reconnectAttempts + 1
            /\ timers' = [timers EXCEPT !.reconnect = @ + 1]
            /\ ev' = Ev("end", FALSE, FALSE, 1, ReconnectDelay(reconnectAttempts + 1),
                        EndNotification(FALSE))
            /\ UNCHANGED terminal
       ELSE /\ terminal' = TRUE
            /\ ev' = Ev("end", FALSE, FALSE, 0, 0, EndNotification(TRUE))
            /\ UNCHANGED <<reconnectAttempts, timers>>
    /\ UNCHANGED <<isOnline, probes, probing, transitions, started>>
    /\ UNCHANGED <<pipeline, ctl>>

-----------------------------------------------------------------------------
(* The script variant at src/bot.js:1696-2104.  It has no ServerChecker:    *)
(* createMCBot is called once when the module is loaded and by the          *)
(* reconnect timers, isOnline is never set.  Its 'message' handler runs the *)
(* group classifier only and has no try/catch.                              *)

MAX_RECONNECT_ATTEMPTS == 10

\* Math.min(10000 * reconnectAttempts, 60000)
ReconnectDelayLegacy(n) == Min(10000 * n, 60000)

\* createMCBot of the variant: no test of the server status
createMCBotLegacy(kind, tm) ==
    /\ bot' = "connecting"
    /\ entity' = FALSE
    /\ orphans' = IF bot \in LiveStates THEN [orphans EXCEPT ![bot] = @ + 1] ELSE orphans
    /\ timers' = tm
    /\ ev' = Ev(kind, TRUE, TRUE, 0, 0, "none")

\* the call createMCBot() at module level
StartupLegacy ==
    /\ ~started
    /\ started' = TRUE
    /\ createMCBotLegacy("startup", timers)
    /\ UNCHANGED <<isOnline, probes, probing, transitions, reconnectAttempts, terminal>>
    /\ UNCHANGED <<pipeline, ctl>>

\* a timer set by the 'end' handler of the variant fires
TimerFireLegacy ==
    /\ timers.reconnect > 0
    /\ createMCBotLegacy("timer", [timers EXCEPT !.reconnect = @ - 1])
    /\ UNCHANGED <<isOnline, probes, probing, transitions, reconnectAttempts, started, terminal>>
    /\ UNCHANGED <<pipeline, ctl>>

\* the 'spawn' handler of the variant
SpawnLegacy ==
    /\ bot \in LiveStates
    /\ timers.announce < MaxPending
    /\ bot' = "connected"
    /\ entity' = TRUE
    /\ reconnectAttempts' = 0
    /\ timers' = [timers EXCEPT !.announce = @ + 1]
    /\ ev' = Ev("spawn", FALSE, FALSE, 1, AnnounceMs, SpawnNotification)
    /\ UNCHANGED <<isOnline, probes, probing, transitions, started, terminal, orphans>>
    /\ UNCHANGED <<pipeline, ctl>>

\* the 'playerJoined' and 'playerLeft' listeners of the variant: the
\* greeting carries no rank, and the operator is told of both events
PlayerEventLegacy(event, username) ==
    /\ bot \in LiveStates
    /\ IF event = "joined" /\ username = BotName
       THEN /\ chat' = << >>
            /\ ev' = [Ev(event, FALSE, FALSE, 0, 0, "none") EXCEPT !.who = username]
       ELSE /\ chat' = IF event = "joined"
                       THEN << Line("greeting", "hello", username, "", "") >>
                       ELSE << >>
            /\ ev' = [Ev(event, FALSE, FALSE, 0, 0,
                          IF event = "joined" THEN "player joined" ELSE "player left")
                        EXCEPT !.who = username]
    /\ UNCHANGED <<isOnline, probes, probing, transitions, reconnectAttempts, bot, entity,
                   orphans, timers, started, terminal>>
    /\ UNCHANGED <<config, donators, donatorsProto, commandCooldowns, logs, stats, now, call,
                   outcome, appended>>
    /\ UNCHANGED ctl

\* a player or the bot itself arrives at or leaves a session of the variant
OnPlayerEventLegacy ==
    \E event \in {"joined", "left"}, username \in {"Alice", BotName} :
       PlayerEventLegacy(event, username)

\* the 'end' handler of the variant: it tells the operator in both branches
EndLegacy ==
    /\ bot \in LiveStates
    /\ bot' = "ended"
    /\ entity' \in {entity, FALSE}
    /\ IF reconnectAttempts < MAX_RECONNECT_ATTEMPTS
       THEN /\ reconnectAttempts' = reconnectAttempts + 1
            /\ timers' = [timers EXCEPT !.reconnect = @ + 1]
            /\ ev' = Ev("end", FALSE, FALSE, 1, ReconnectDelayLegacy(reconnectAttempts + 1),
                        "disconnected")
            /\ UNCHANGED terminal
       ELSE /\ terminal' = TRUE
            /\ ev' = Ev("end", FALSE, FALSE, 0, 0, "terminal")
            /\ UNCHANGED <<reconnectAttempts, timers>>
    /\ UNCHANGED <<isOnline, probes, probing, transitions, started, orphans>>
    /\ UNCHANGED <<pipeline, ctl>>

-----------------------------------------------------------------------------
(* The Telegram control channel.  A handler call is described by tg: who    *)
(* sent the update, which handler ran, which reply it gave; n counts the    *)
(* calls.  The text handler is suspended at its await: TgText runs it up    *)
(* to the await, TgTextResume from there, ScanTimeout is the callback it    *)
(* schedules.  Timeouts have one delay, so they fire in the order in which  *)
(* the handlers set them.                                                   *)

TgUsers == {TgAdminId, 2}

TgCommands == {"start", "status", "adddonator", "removedonator", "donators",
               "logs", "stats", "help"}

\* the words after the command: absent words are the empty string
TgNicks == {"", "Bob", "__proto__"}
TgRanks == {"", "vip", "GOLD"}

\* texts entered as a player name
TgTexts == {"B", "Bob", "Carol", "__proto__"}

\* group names printed by the game server
GroupNames == {"vip", "Default"}

\* String.prototype.toUpperCase on the names that occur in this model
ToUpper(s) ==
    CASE s = "vip" -> "VIP"
      [] s = "Default" -> "DEFAULT"
      [] s = "Groups" -> "GROUPS"
      [] OTHER -> s

validRanks == {"VIP", "PREMIUM", "DIAMOND"}

ignoreList == {"lp", "luckperms", "groups", "info", "usage", "default",
               "error", "players", "permission", "user", "group", "track",
               "log", "sync", "editor", "verbose", "tree", "search"}

isAdmin_Anyone(userId) == TRUE

isAdmin(userId) == userId = TgAdminId

Tg(from, kind, reply, player, buttons) ==
    [from |-> from, kind |-> kind, reply |-> reply, player |-> player,
     buttons |-> buttons, n |-> tg.n + 1]

addDonator_CountsTwice(username, rank) ==
    /\ IF username = "__proto__"
       THEN /\ donatorsProto' = [donatorsProto EXCEPT
                                   !.proto = [rank |-> rank, joinedAt |-> now]]
            /\ UNCHANGED donators
       ELSE /\ donators' = Extended(donators, username, [rank |-> rank, joinedAt |-> now])
            /\ UNCHANGED donatorsProto
    /\ stats' = [stats EXCEPT !.totalDonats = @ + 2]

\* Database.addDonator.  The assignment this.data.donators[username] = {...}
\* under the key "__proto__" replaces the prototype of the object and
\* creates no own key: Object.keys and data.json do not show the record.
addDonator(username, rank) ==
    /\ IF username = "__proto__"
       THEN /\ donatorsProto' = [donatorsProto EXCEPT
                                   !.proto = [rank |-> rank, joinedAt |-> now]]
            /\ UNCHANGED donators
       ELSE /\ donators' = Extended(donators, username, [rank |-> rank, joinedAt |-> now])
            /\ UNCHANGED donatorsProto
    /\ stats' = [stats EXCEPT !.totalDonats = @ + 1]

\* Database.removeDonator when this.data.donators[username] is truthy:
\* delete removes an own key and leaves inherited members alone
removeDonator(username) ==
    /\ donators' = [u \in DOMAIN donators \ {username} |-> donators[u]]
    /\ UNCHANGED donatorsProto

\* tgBot.start and the tgBot.command handlers
TgCommand(uid, cmd, nick, rawRank) ==
    /\ tg.n < MaxTgCalls
    /\ chat' = << >>
    /\ IF ~isAdmin(uid) THEN
          /\ tg' = Tg(uid, cmd, "denied", "", << >>)
          /\ UNCHANGED <<donators, donatorsProto, stats>>
       ELSE IF cmd = "adddonator" THEN
          LET rank == ToUpper(rawRank) IN
          IF nick = "" \/ rank = "" THEN
             /\ tg' = Tg(uid, cmd, "usage", "", << >>)
             /\ UNCHANGED <<donators, donatorsProto, stats>>
          ELSE IF rank \notin validRanks THEN
             /\ tg' = Tg(uid, cmd, "bad rank", "", << >>)
             /\ UNCHANGED <<donators, donatorsProto, stats>>
          ELSE
             /\ addDonator(nick, rank)
             /\ tg' = Tg(uid, cmd, "added", nick, << >>)
       ELSE IF cmd = "removedonator" THEN
          IF nick = "" THEN
             /\ tg' = Tg(uid, cmd, "usage", "", << >>)
             /\ UNCHANGED <<donators, donatorsProto, stats>>
          ELSE IF getDonator(nick) # Null THEN
             /\ removeDonator(nick)
             /\ tg' = Tg(uid, cmd, "removed", nick, << >>)
             /\ UNCHANGED stats
          ELSE
             /\ tg' = Tg(uid, cmd, "not found", nick, << >>)
             /\ UNCHANGED <<donators, donatorsProto, stats>>
       ELSE IF cmd = "donators" /\ DOMAIN donators = {} THEN
          /\ tg' = Tg(uid, cmd, "no donators", "", << >>)
          /\ UNCHANGED <<donators, donatorsProto, stats>>
       ELSE
          /\ tg' = Tg(uid, cmd, cmd, "", << >>)
          /\ UNCHANGED <<donators, donatorsProto, stats>>
    /\ UNCHANGED <<config, commandCooldowns, logs, now, call, outcome, appended>>
    /\ UNCHANGED <<botState, scans>>
    /\ UNCHANGED conn

\* variant: a handle entered while a flow is pending is refused
TgText_Busy(uid, text) ==
    /\ tg.n < MaxTgCalls
    /\ chat' = << >>
    /\ IF ~isAdmin(uid) THEN
          /\ tg' = Tg(uid, "text", "denied", "", << >>)
          /\ UNCHANGED <<botState, scans>>
       ELSE IF Len(text) < 2 \/ Len(text) > 16 \/ ~entity \/ botState.isCapturingGroups THEN
          /\ tg' = Tg(uid, "text", "refused", text, << >>)
          /\ UNCHANGED <<botState, scans>>
       ELSE
          /\ botState' = [pendingPlayer |-> text, isCapturingGroups |-> TRUE,
                          foundGroups |-> << >>]
          /\ scans' = [scans EXCEPT !.replying = Append(@, text)]
          /\ tg' = Tg(uid, "text", "scanning", text, << >>)
    /\ UNCHANGED <<config, donators, donatorsProto, commandCooldowns, logs, stats, now, call, outcome,
                   appended>>
    /\ UNCHANGED conn

\* tgBot.on('text') up to its await
TgText(uid, text) ==
    /\ tg.n < MaxTgCalls
    /\ chat' = << >>
    /\ IF ~isAdmin(uid) THEN
          /\ tg' = Tg(uid, "text", "denied", "", << >>)
          /\ UNCHANGED <<botState, scans>>
       ELSE IF Len(text) < 2 \/ Len(text) > 16 THEN
          /\ tg' = Tg(uid, "text", "bad length", text, << >>)
          /\ UNCHANGED <<botState, scans>>
       ELSE IF ~entity THEN
          /\ tg' = Tg(uid, "text", "offline", text, << >>)
          /\ UNCHANGED <<botState, scans>>
       ELSE
          /\ botState' = [pendingPlayer |-> text, isCapturingGroups |-> TRUE,
                          foundGroups |-> << >>]
          /\ scans' = [scans EXCEPT !.replying = Append(@, text)]
          /\ tg' = Tg(uid, "text", "scanning", text, << >>)
    /\ UNCHANGED <<config, donators, donatorsProto, commandCooldowns, logs, stats, now, call, outcome,
                   appended>>
    /\ UNCHANGED conn

\* q without its element at position i
Without(q, i) == SubSeq(q, 1, i - 1) \o SubSeq(q, i + 1, Len(q))

\* tgBot.on('text') after its await: the listing request and the timeout.
\* A suspended handler goes on when its own reply has settled, whatever the
\* order in which the handlers were suspended.
TgTextResume ==
    \E i \in DOMAIN scans.replying :
       /\ chat' = << Line("effect", "/lp listgroups", "", "", "") >>
       /\ scans' = [scans EXCEPT !.replying = Without(@, i),
                                  !.waiting = Append(@, scans.replying[i])]
       /\ UNCHANGED <<config, donators, donatorsProto, commandCooldowns, logs, stats, now,
                      call, outcome, appended>>
       /\ UNCHANGED <<botState, tg>>
       /\ UNCHANGED conn

\* tgBot.on('text') when the awaited reply is rejected (the Telegram API
\* call failed): the handler ends there, tgBot.catch logs the error, no
\* listing request is sent and no timeout is set
TgTextFail ==
    /\ \E i \in DOMAIN scans.replying :
          scans' = [scans EXCEPT !.replying = Without(@, i)]
    /\ chat' = << >>
    /\ UNCHANGED <<config, donators, donatorsProto, commandCooldowns, logs, stats, now, call, outcome,
                   appended>>
    /\ UNCHANGED <<botState, tg>>
    /\ UNCHANGED conn

\* the buttons of the menu the callback renders for a handle: one button
\* set_<group> for each found group
Menu(player, groups) == {[player |-> player, rank |-> groups[i]] : i \in DOMAIN groups}

\* the callback of setTimeout(..., 3000) of the text handler
ScanTimeout ==
    /\ scans.waiting # << >>
    /\ scans' = [scans EXCEPT !.waiting = Tail(@),
                               !.menus = @ \cup Menu(Head(scans.waiting), botState.foundGroups)]
    /\ botState' = [botState EXCEPT !.isCapturingGroups = FALSE]
    /\ chat' = << >>
    /\ tg' = IF botState.foundGroups = << >>
             THEN [Tg(TgAdminId, "timeout", "no groups", Head(scans.waiting), << >>)
                     EXCEPT !.n = tg.n]
             ELSE [Tg(TgAdminId, "timeout", "buttons", Head(scans.waiting),
                      botState.foundGroups) EXCEPT !.n = tg.n]
    /\ UNCHANGED <<config, donators, donatorsProto, commandCooldowns, logs, stats, now, call, outcome,
                   appended>>
    /\ UNCHANGED conn

SeqContains(q, x) == \E i \in DOMAIN q : q[i] = x

\* the group classifier of the 'message' handler on a line "- group",
\* delivered by any spawned session
OnGroupLine(group) ==
    /\ Spawned
    /\ botState.isCapturingGroups
    /\ botState' =
         IF ToLower(group) \notin ignoreList /\ ~SeqContains(botState.foundGroups, group)
         THEN [botState EXCEPT !.foundGroups = Append(@, group)]
         ELSE botState
    /\ chat' = << >>
    /\ UNCHANGED <<config, donators, donatorsProto, commandCooldowns, logs, stats, now, call, outcome,
                   appended>>
    /\ UNCHANGED <<scans, tg>>
    /\ UNCHANGED conn

\* the variant at src/bot.js:2105-3231: the same classifier with a longer
\* stoplist, followed by an alternative parser of bare capitalised lines
ignoreListAlt == ignoreList \cup
                 {"networksync", "import", "export", "reloadconfig", "bulkupdate",
                  "translations", "creategroup", "deletegroup", "listgroups",
                  "createtrack", "deletetrack", "listtracks"}

altIgnoreList == {"LP", "INFO", "USAGE", "DEFAULT", "ERROR", "PLAYERS"}

\* the chat lines of this model: "- token" (dash) and "token" (bare)
LineShapes == {"dash", "bare"}

LineTokens == {"vip", "Default", "Groups"}

\* /^[A-Z]/ on the tokens that occur in this model
FirstIsUpper(s) == s \in {"Default", "Groups"}

\* /^[-]\s+([a-zA-Z0-9_]+)$/m matches the dash lines only
dashParser(found, shape, token) ==
    IF shape = "dash" /\ ToLower(token) \notin ignoreListAlt /\ ~SeqContains(found, token)
    THEN Append(found, token)
    ELSE found

\* /^\s*([A-Z][A-Za-z0-9_]*)\s*$/ matches the bare capitalised lines only
altParser(found, shape, token) ==
    IF /\ shape = "bare"
       /\ FirstIsUpper(token)
       /\ ToUpper(token) \notin altIgnoreList
       /\ ~SeqContains(found, token)
       /\ Len(token) > 1
    THEN Append(found, token)
    ELSE found

\* the group classifier of the 'message' handler of the variant
OnGroupLineAlt(shape, token) ==
    /\ Spawned
    /\ botState.isCapturingGroups
    /\ botState' = [botState EXCEPT !.foundGroups =
                                     altParser(dashParser(@, shape, token), shape, token)]
    /\ chat' = << >>
    /\ UNCHANGED <<config, donators, donatorsProto, commandCooldowns, logs, stats, now, call, outcome,
                   appended>>
    /\ UNCHANGED <<scans, tg>>
    /\ UNCHANGED conn

\* tgBot.action(/set_(.+)/)
TgAction(uid, rank) ==
    /\ tg.n < MaxTgCalls
    /\ IF ~isAdmin(uid) THEN
          /\ tg' = Tg(uid, "action", "denied", "", << >>)
          /\ chat' = << >>
          /\ UNCHANGED <<donators, donatorsProto, stats>>
       ELSE IF ~entity THEN
          /\ tg' = Tg(uid, "action", "offline", "", << >>)
          /\ chat' = << >>
          /\ UNCHANGED <<donators, donatorsProto, stats>>
       ELSE
          /\ chat' = << Line("effect", "/lp user parent set", botState.pendingPlayer,
                             rank, "") >>
          /\ addDonator(botState.pendingPlayer, rank)
          /\ tg' = Tg(uid, "action", "sent", botState.pendingPlayer, << >>)
    /\ UNCHANGED <<config, commandCooldowns, logs, now, call, outcome, appended>>
    /\ UNCHANGED <<botState, scans>>
    /\ UNCHANGED conn

OnTelegram ==
    \/ \E uid \in TgUsers, cmd \in TgCommands, nick \in TgNicks, rawRank \in TgRanks :
          TgCommand(uid, cmd, nick, rawRank)
    \/ \E uid \in TgUsers, text \in TgTexts : TgText(uid, text)
    \/ \E uid \in TgUsers, rank \in GroupNames : TgAction(uid, rank)

-----------------------------------------------------------------------------
(* The variant at src/bot.js:2105-3231.  A donator record carries an        *)
(* isAdmin flag, administrators are the speakers whose record has the flag  *)
(* set, and the Database constructor adds the default administrators.       *)

DefaultAdmins == {"voyagerplay"}

initializeDefaultAdmins_Only(ds) ==
    [u \in DefaultAdmins |-> [rank |-> "ADMIN", joinedAt |-> now, isAdmin |-> TRUE]]

\* Database.initializeDefaultAdmins
initializeDefaultAdmins(ds) ==
    [u \in DOMAIN ds \cup DefaultAdmins |->
        IF u \in DOMAIN ds THEN ds[u]
        ELSE [rank |-> "ADMIN", joinedAt |-> now, isAdmin |-> TRUE]]

\* variant: an administrator is a donator of rank ADMIN
isPlayerAdmin_ByRank(playerName) ==
    /\ playerName \in DOMAIN donators
    /\ donators[playerName].rank = "ADMIN"

\* Database.isPlayerAdmin: a record without the field inherits it from
\* Object.prototype
isPlayerAdmin(playerName) ==
    LET player == getDonator(playerName) IN
    /\ player # Null
    /\ FieldOr(player, "isAdmin",
               FieldOr(donatorsProto.flags, "Object.prototype", FALSE)) = TRUE

\* Database.addDonator of the variant
addDonatorAlt(username, rank) ==
    /\ IF username = "__proto__"
       THEN /\ donatorsProto' = [donatorsProto EXCEPT
                                   !.proto = [rank |-> rank, joinedAt |-> now,
                                              isAdmin |-> FALSE]]
            /\ UNCHANGED donators
       ELSE /\ donators' = Extended(donators, username,
                                    [rank |-> rank, joinedAt |-> now, isAdmin |-> FALSE])
            /\ UNCHANGED donatorsProto
    /\ stats' = [stats EXCEPT !.totalDonats = @ + 1]

AdminCommandNames == {"say", "clear", "weather", "time", "broadcast"}

\* the lines executeAdminCommand passes to bot.chat, in order
executeAdminCommand(playerName, command, args) ==
    CASE command = "say" ->
           IF args = <<>> THEN << Line("error", "usage say", playerName, "", "") >>
           ELSE << WholeLine("effect", "say", playerName, args),
                   WholeLine("confirm", "said", playerName, args) >>
      [] command = "clear" ->
           << Line("effect", "/clear", "", "", ""),
              Line("confirm", "cleared", playerName, "", "") >>
      [] command = "weather" ->
           << WholeLine("effect", "/weather", playerName, WholeOr(args, "clear")),
              WholeLine("confirm", "weather", playerName, WholeOr(args, "clear")) >>
      [] command = "time" ->
           << WholeLine("effect", "/time set", playerName, WholeOr(args, "12000")),
              WholeLine("confirm", "time", playerName, WholeOr(args, "12000")) >>
      [] command = "broadcast" ->
           IF args = <<>> THEN << Line("error", "usage broadcast", playerName, "", "") >>
           ELSE << WholeLine("effect", "broadcast", playerName, args) >>
      [] OTHER ->
           << Line("error", "unknown admin command", playerName, command, "") >>

\* the lines executeCommand of the variant passes to bot.chat, in order: the
\* switch has no administrator cases, and the notice after an effect names
\* the effect
executeCommandAlt(playerName, command, args, rank) ==
    CASE command = "give" ->
           IF args = <<>> THEN << Line("error", "usage give", playerName, "", "") >>
           ELSE << Line("effect", "/give", playerName, First(args), SecondOr(args, "1")),
                   Line("confirm", "given", playerName, First(args), SecondOr(args, "1")) >>
      [] command = "heal" ->
           << Line("effect", "/effect give instant_health", playerName, "", ""),
              Line("confirm", "healed", playerName, "", "") >>
      [] command = "tpall" ->
           << Line("effect", "/execute teleport", playerName, "", ""),
              Line("confirm", "teleported", playerName, "", "") >>
      [] command = "gamemode" ->
           << WholeLine("effect", "/gamemode", playerName, WholeOr(args, "creative")),
              WholeLine("confirm", "gamemode", playerName, WholeOr(args, "creative")) >>
      [] command = "effect" ->
           IF args = <<>> THEN << Line("error", "usage effect", playerName, "", "") >>
           ELSE << Line("effect", "/effect give", playerName, First(args), SecondOr(args, "1")),
                   Line("confirm", "effect applied", playerName, First(args), "") >>
      [] command = "fly" ->
           << Line("effect", "/ability mayfly", playerName, "", ""),
              Line("confirm", "fly", playerName, "", "") >>
      [] command = "speed" ->
           << WholeLine("effect", "/effect give speed", playerName, WholeOr(args, "2")),
              Line("confirm", "speed", playerName, "", "") >>
      [] OTHER ->
           << Line("error", "unknown command", playerName, command, "") >>

\* what one run of handlePlayerCommand of the variant did; notified is the
\* Telegram message it sent to the operator
ResultAlt(path, timeLeft, notified) ==
    [path |-> path, timeLeft |-> timeLeft, notified |-> notified]

\* a rejection of the variant that writes one audit entry and nothing else
RejectAlt(playerName, command, text, path, reason) ==
    /\ chat' = << Line("error", text, playerName, command, "") >>
    /\ logs' = addLog(logs, playerName, command, FALSE, reason, now)
    /\ appended' = appended + 1
    /\ outcome' = ResultAlt(path, 0, "none")
    /\ UNCHANGED <<donators, donatorsProto, commandCooldowns, stats, now>>

\* handlePlayerCommand of the variant
HandlePlayerCommandAlt(playerName, command, args) ==
    LET donator == getDonator(playerName)
        cmdInfo == getCommandInfo(command)
    IN
    /\ appended < MaxAppends
    /\ UNCHANGED config
    /\ IF isPlayerAdmin(playerName) THEN
          /\ chat' = executeAdminCommand(playerName, command, args)
          /\ outcome' = ResultAlt("admin", 0, "none")
          /\ call' = Call(playerName, command, args, now)
          /\ UNCHANGED <<donators, donatorsProto, commandCooldowns, logs, stats, appended, now>>
       ELSE IF donator = Null THEN
          /\ RejectAlt(playerName, command, "donators only", "not a donator", "NOT A DONATOR")
          /\ call' = Call(playerName, command, args, now)
       ELSE IF isCommandBanned(command) THEN
          /\ chat' = << Line("error", "forbidden", playerName, command,
                             getBannedCommandInfo(command).reason) >>
          /\ logs' = addLog(logs, playerName, command, FALSE, "BLACKLISTED", now)
          /\ appended' = appended + 1
          /\ stats' = [stats EXCEPT !.blockedAttempts = @ + 1]
          /\ outcome' = ResultAlt("blocked", 0, "blocked attempt")
          /\ call' = Call(playerName, command, args, now)
          /\ UNCHANGED <<donators, donatorsProto, commandCooldowns, now>>
       ELSE IF ~isCommandAllowed(command) THEN
          /\ RejectAlt(playerName, command, "unknown command", "unknown command",
                       "UNKNOWN COMMAND")
          /\ call' = Call(playerName, command, args, now)
       ELSE IF getRankLevelRaises THEN
          /\ chat' = << >>
          /\ outcome' = ResultAlt("error", 0, "none")
          /\ call' = Call(playerName, command, args, now)
          /\ UNCHANGED <<donators, donatorsProto, commandCooldowns, logs, stats, appended, now>>
       ELSE IF ~canRankUseCommand(FieldOr(donator, "rank", "undefined"), command) THEN
          /\ RejectAlt(playerName, command, "rank too low", "insufficient rank",
                       "INSUFFICIENT RIGHTS")
          /\ call' = Call(playerName, command, args, now)
       ELSE IF isOnCooldown(playerName, now) THEN
          \E gap \in Gaps :
             LET read == now + gap
                 left == getCooldownTimeLeft(playerName, read)
                 timeLeft == IF left = NaN THEN NaN ELSE CeilDiv(left, 1000)
             IN
             /\ read <= MaxTime
             /\ chat' = << IF timeLeft = NaN THEN WaitLine(playerName, NaN, NaN)
                           ELSE WaitLine(playerName, timeLeft \div 60, timeLeft % 60) >>
             /\ outcome' = ResultAlt("on cooldown", left, "none")
             /\ now' = read
             /\ call' = Call(playerName, command, args, read)
             /\ UNCHANGED <<donators, donatorsProto, commandCooldowns, logs, stats, appended>>
       ELSE
          \E gap1 \in (IF ReadsClock(playerName) THEN Gaps ELSE {0}), gap2, gap3 \in Gaps :
             LET read1 == now + gap1
                 read2 == read1 + gap2
                 read3 == read2 + gap3
             IN
             /\ read3 <= MaxTime
             /\ chat' = executeCommandAlt(playerName, command, args, FieldOr(donator, "rank", "undefined"))
             /\ commandCooldowns' = setCooldown(CooldownsAfterCheck(playerName, now),
                                                playerName, cmdInfo, read1, read2)
             /\ stats' = [stats EXCEPT !.totalCommands = @ + 1]
             /\ logs' = addLog(logs, playerName, command, TRUE, "SUCCESS", read3)
             /\ appended' = appended + 1
             /\ outcome' = ResultAlt("accepted", 0, "none")
             /\ now' = read3
             /\ call' = Call(playerName, command, args, read3)
             /\ UNCHANGED <<donators, donatorsProto>>

\* the 'message' handler of the variant on a line <speaker> !name args, the
\* speaker drawn from speakers, the name from names and the arguments from
\* argLists; its whole body is inside try/catch, and neither parser of the
\* classifier matches such a line
CommandLineAlt(speakers, names, argLists) ==
    /\ Spawned
    /\ \E playerName \in speakers, raw \in names, args \in argLists :
          HandlePlayerCommandAlt(playerName, ToLower(raw), args)
    /\ bot' = AfterMessage(TRUE, outcome'.path = "error")
    /\ entity' = (entity /\ bot' # "crashed")
    /\ UNCHANGED <<isOnline, probes, probing, transitions, reconnectAttempts, orphans, timers,
                   started, terminal, ev>>
    /\ UNCHANGED ctl

\* the module of the variant is loaded: new Database() reads data.json and
\* runs initializeDefaultAdmins, then initialize runs up to its await, where
\* the first probe is pending.  No handler runs before this turn has ended.
StartupAlt ==
    /\ ~started
    /\ started' = TRUE
    /\ donators' = initializeDefaultAdmins(donators)
    /\ updateStatusCall("startup")
    /\ ev' = Ev("probe", FALSE, FALSE, 0, 0, "none")
    /\ UNCHANGED <<isOnline, probes, transitions, reconnectAttempts, bot, entity, orphans,
                   timers, terminal>>
    /\ UNCHANGED <<config, donatorsProto, commandCooldowns, logs, stats, now, chat, call,
                   outcome, appended>>
    /\ UNCHANGED ctl

\* initialize of the variant after its await; the text of the function is
\* that of the variant at src/bot.js:820 (createMCBot when the first probe
\* succeeded, then tgBot.launch())
StartupResumeAlt == StartupResume

\* tgBot.launch() has run: Telegraf delivers updates to the handlers
Launched == started /\ ~(\E i \in DOMAIN probing : probing[i].by = "startup")

\* the 'spawn' handler of the variant and the callback of its timer; their
\* text differs from src/bot.js:1117-1130 in the version string only.  A
\* spawn is explored while fewer than MaxPendingAlt announcements are pending.
SpawnAlt == timers.announce < MaxPendingAlt /\ Spawn

AnnounceAlt == Announce

\* createMCBot, the callback of setInterval in initialize and the timers
\* set by setTimeout(createMCBot, ...) have the text of the variant at
\* src/bot.js:820.  The poll is explored while fewer than MaxProbesAlt
\* probes were made and fewer than MaxPendingAlt sessions and createMCBot
\* timers are pending.
PollAlt == PendingCount < MaxPendingAlt /\ Len(probes) < MaxProbesAlt /\ Poll

PollResumeAlt == PollResume

TimerFireAlt == TimerFire

\* the 'playerJoined' listener of a live session of the variant: nothing
\* for the bot's own name; else the greeting, marked for a handle whose
\* record carries the administrator flag and with the rank for another
\* donator, is passed to bot.chat and the operator is told
PlayerJoinedAlt(username) ==
    /\ LiveCount > 0
    /\ IF username = BotName
       THEN /\ chat' = << >>
            /\ ev' = [Ev("joined", FALSE, FALSE, 0, 0, "none") EXCEPT !.who = username]
       ELSE LET donator == getDonator(username)
                isAdminPlayer == isPlayerAdmin(username)
            IN /\ chat' = << Line("greeting", "welcome", username,
                                  IF isAdminPlayer THEN "admin"
                                  ELSE IF donator # Null
                                       THEN FieldOr(donator, "rank", "undefined")
                                       ELSE "",
                                  "") >>
               /\ ev' = [Ev("joined", FALSE, FALSE, 0, 0,
                             IF isAdminPlayer THEN "admin joined" ELSE "player joined")
                           EXCEPT !.who = username]
    /\ UNCHANGED <<isOnline, probes, probing, transitions, reconnectAttempts, bot, entity,
                   orphans, timers, started, terminal>>
    /\ UNCHANGED <<config, donators, donatorsProto, commandCooldowns, logs, stats, now, call,
                   outcome, appended>>
    /\ UNCHANGED ctl

\* the default administrator, a donator or the bot itself arrives
OnPlayerJoinedAlt == \E username \in {"voyagerplay", "Alice", BotName} : PlayerJoinedAlt(username)

\* the 'end' event of a live session of the variant, explored while the
\* retry counter is below MaxEndsAlt.  The operator is told in both
\* branches.  Whether the library keeps the entity of an ended session is
\* left open.
EndAlt ==
    /\ reconnectAttempts < MaxEndsAlt
    /\ \/ /\ bot \in LiveStates
          /\ bot' = "ended"
          /\ entity' \in {entity, FALSE}
          /\ UNCHANGED orphans
       \/ \E st \in LiveStates :
             /\ orphans[st] > 0
             /\ orphans' = [orphans EXCEPT ![st] = @ - 1]
             /\ UNCHANGED <<bot, entity>>
    /\ IF reconnectAttempts < MAX_RECONNECT
       THEN /\ reconnectAttempts' = reconnectAttempts + 1
            /\ timers' = [timers EXCEPT !.reconnect = @ + 1]
            /\ ev' = Ev("end", FALSE, FALSE, 1, ReconnectDelay(reconnectAttempts + 1),
                        "reconnecting")
            /\ UNCHANGED terminal
       ELSE /\ terminal' = TRUE
            /\ ev' = Ev("end", FALSE, FALSE, 0, 0, "critical")
            /\ UNCHANGED <<reconnectAttempts, timers>>
    /\ UNCHANGED <<isOnline, probes, probing, transitions, started>>
    /\ UNCHANGED <<pipeline, ctl>>

\* donator.isAdmin = flag of /setadmin and /removeadmin, donator being the
\* truthy value getDonator returned: an own record, the object put in the
\* place of the prototype, Object.prototype or one of its members
setAdminFlag(username, flag) ==
    IF username \in DOMAIN donators THEN
       /\ donators' = [donators EXCEPT ![username] =
                         [rank |-> @.rank, joinedAt |-> @.joinedAt, isAdmin |-> flag]]
       /\ UNCHANGED donatorsProto
    ELSE IF username = "__proto__" /\ donatorsProto.proto # Null THEN
       /\ donatorsProto' = [donatorsProto EXCEPT !.proto =
                              [rank |-> @.rank, joinedAt |-> @.joinedAt, isAdmin |-> flag]]
       /\ UNCHANGED donators
    ELSE
       /\ donatorsProto' = [donatorsProto EXCEPT !.flags =
                              Extended(@, IF username = "__proto__" THEN "Object.prototype"
                                          ELSE username, flag)]
       /\ UNCHANGED donators

\* tgBot.start and the tgBot.command handlers of the variant, but for
\* /testgroups and /broadcastmsg.  CommandsManager of the variant has no
\* method reloadCommands: the call in /reloadcmds raises a TypeError, which
\* Telegraf passes to tgBot.catch, and no reply is sent.
TgCommandAlt(uid, cmd, nick, rawRank) ==
    /\ Launched
    /\ tg.n < MaxOps
    /\ chat' = << >>
    /\ IF ~isAdmin(uid) THEN
          /\ tg' = Tg(uid, cmd, "denied", "", << >>)
          /\ UNCHANGED <<donators, donatorsProto, stats>>
       ELSE IF cmd = "adddonator" THEN
          LET rank == ToUpper(rawRank) IN
          IF nick = "" \/ rank = "" THEN
             /\ tg' = Tg(uid, cmd, "usage", "", << >>)
             /\ UNCHANGED <<donators, donatorsProto, stats>>
          ELSE IF rank \notin validRanks THEN
             /\ tg' = Tg(uid, cmd, "bad rank", "", << >>)
             /\ UNCHANGED <<donators, donatorsProto, stats>>
          ELSE
             /\ addDonatorAlt(nick, rank)
             /\ tg' = Tg(uid, cmd, "added", nick, << >>)
       ELSE IF cmd = "removedonator" THEN
          IF nick = "" THEN
             /\ tg' = Tg(uid, cmd, "usage", "", << >>)
             /\ UNCHANGED <<donators, donatorsProto, stats>>
          ELSE IF getDonator(nick) # Null THEN
             /\ removeDonator(nick)
             /\ tg' = Tg(uid, cmd, "removed", nick, << >>)
             /\ UNCHANGED stats
          ELSE
             /\ tg' = Tg(uid, cmd, "not found", nick, << >>)
             /\ UNCHANGED <<donators, donatorsProto, stats>>
       ELSE IF cmd \in {"setadmin", "removeadmin"} THEN
          IF nick = "" THEN
             /\ tg' = Tg(uid, cmd, "usage", "", << >>)
             /\ UNCHANGED <<donators, donatorsProto, stats>>
          ELSE IF getDonator(nick) # Null THEN
             /\ setAdminFlag(nick, cmd = "setadmin")
             /\ tg' = Tg(uid, cmd, "flag set", nick, << >>)
             /\ UNCHANGED stats
          ELSE
             /\ tg' = Tg(uid, cmd, "not found", nick, << >>)
             /\ UNCHANGED <<donators, donatorsProto, stats>>
       ELSE IF cmd = "donators" /\ DOMAIN donators = {} THEN
          /\ tg' = Tg(uid, cmd, "no donators", "", << >>)
          /\ UNCHANGED <<donators, donatorsProto, stats>>
       ELSE IF cmd = "reloadcmds" THEN
          /\ tg' = Tg(uid, cmd, "raised", "", << >>)
          /\ UNCHANGED <<donators, donatorsProto, stats>>
       ELSE
          /\ tg' = Tg(uid, cmd, cmd, "", << >>)
          /\ UNCHANGED <<donators, donatorsProto, stats>>
    /\ UNCHANGED <<config, commandCooldowns, logs, now, call, outcome, appended>>
    /\ UNCHANGED <<botState, scans>>
    /\ UNCHANGED conn

\* tgBot.command('testgroups') of the variant.  Its timer is the entry
\* "/testgroups" of scans.waiting: a text of this form is handled as a
\* command and is never a pending handle.  The found-list is cleared,
\* the capture flag set, the listing requested and a timeout set; the
\* pending handle is left as it is
TgTestGroups(uid) ==
    /\ Launched
    /\ tg.n < MaxOps
    /\ IF ~isAdmin(uid) THEN
          /\ tg' = Tg(uid, "testgroups", "denied", "", << >>)
          /\ chat' = << >>
          /\ UNCHANGED <<botState, scans>>
       ELSE IF ~entity THEN
          /\ tg' = Tg(uid, "testgroups", "offline", "", << >>)
          /\ chat' = << >>
          /\ UNCHANGED <<botState, scans>>
       ELSE
          /\ botState' = [botState EXCEPT !.foundGroups = << >>,
                                          !.isCapturingGroups = TRUE]
          /\ chat' = << Line("effect", "/lp listgroups", "", "", "") >>
          /\ scans' = [scans EXCEPT !.waiting = Append(@, "/testgroups")]
          /\ tg' = Tg(uid, "testgroups", "testing", "", << >>)
    /\ UNCHANGED <<config, donators, donatorsProto, commandCooldowns, logs, stats, now, call,
                   outcome, appended>>
    /\ UNCHANGED conn

\* text.replace('/broadcastmsg ', '').trim() on the texts of this model: the
\* bare command holds no blank, so nothing is replaced
broadcastMessage(text) ==
    CASE text = "/broadcastmsg" -> "/broadcastmsg"
      [] text = "/broadcastmsg " -> ""
      [] text = "/broadcastmsg hi" -> "hi"

\* tgBot.command('broadcastmsg') of the variant
TgBroadcast(uid, text) ==
    /\ Launched
    /\ tg.n < MaxOps
    /\ IF ~isAdmin(uid) THEN
          /\ tg' = Tg(uid, "broadcastmsg", "denied", "", << >>)
          /\ chat' = << >>
       ELSE IF ~entity THEN
          /\ tg' = Tg(uid, "broadcastmsg", "offline", "", << >>)
          /\ chat' = << >>
       ELSE IF broadcastMessage(text) = "" THEN
          /\ tg' = Tg(uid, "broadcastmsg", "usage", "", << >>)
          /\ chat' = << >>
       ELSE
          /\ chat' = << WholeLine("effect", "announcement", "", << broadcastMessage(text) >>) >>
          /\ tg' = Tg(uid, "broadcastmsg", "sent", "", << >>)
    /\ UNCHANGED <<config, donators, donatorsProto, commandCooldowns, logs, stats, now, call,
                   outcome, appended>>
    /\ UNCHANGED <<botState, scans>>
    /\ UNCHANGED conn

\* tgBot.on('text') of the variant up to its await
TgTextAlt(uid, text) ==
    /\ Launched
    /\ tg.n < MaxOps
    /\ chat' = << >>
    /\ IF ~isAdmin(uid) THEN
          /\ tg' = Tg(uid, "text", "denied", "", << >>)
          /\ UNCHANGED <<botState, scans>>
       ELSE IF Len(text) < 2 \/ Len(text) > 16 THEN
          /\ tg' = Tg(uid, "text", "bad length", text, << >>)
          /\ UNCHANGED <<botState, scans>>
       ELSE IF ~entity THEN
          /\ tg' = Tg(uid, "text", "offline", text, << >>)
          /\ UNCHANGED <<botState, scans>>
       ELSE
          /\ botState' = [pendingPlayer |-> text, isCapturingGroups |-> TRUE,
                          foundGroups |-> << >>]
          /\ scans' = [scans EXCEPT !.replying = Append(@, text)]
          /\ tg' = Tg(uid, "text", "scanning", text, << >>)
    /\ UNCHANGED <<config, donators, donatorsProto, commandCooldowns, logs, stats, now, call, outcome,
                   appended>>
    /\ UNCHANGED conn

\* tgBot.on('text') of the variant after its await: the listing request and
\* the timeout
TgTextResumeAlt ==
    \E i \in DOMAIN scans.replying :
       /\ chat' = << Line("effect", "/lp listgroups", "", "", "") >>
       /\ scans' = [scans EXCEPT !.replying = Without(@, i),
                                  !.waiting = Append(@, scans.replying[i])]
       /\ UNCHANGED <<config, donators, donatorsProto, commandCooldowns, logs, stats, now,
                      call, outcome, appended>>
       /\ UNCHANGED <<botState, tg>>
       /\ UNCHANGED conn

\* tgBot.on('text') of the variant when the awaited reply is rejected: the
\* handler ends there and tgBot.catch logs the error
TgTextFailAlt ==
    /\ \E i \in DOMAIN scans.replying :
          scans' = [scans EXCEPT !.replying = Without(@, i)]
    /\ chat' = << >>
    /\ UNCHANGED <<config, donators, donatorsProto, commandCooldowns, logs, stats, now, call, outcome,
                   appended>>
    /\ UNCHANGED <<botState, tg>>
    /\ UNCHANGED conn

\* the callback of a setTimeout(..., 3000) of the variant: the one of
\* /testgroups replies with the found-list, the one of the text handler
\* renders the menu for its handle.  The timeouts have one delay, so they
\* fire in the order in which they were set.
ScanTimeoutAlt ==
    /\ scans.waiting # << >>
    /\ botState' = [botState EXCEPT !.isCapturingGroups = FALSE]
    /\ chat' = << >>
    /\ IF Head(scans.waiting) = "/testgroups" THEN
          /\ scans' = [scans EXCEPT !.waiting = Tail(@)]
          /\ tg' = [Tg(TgAdminId, "timeout", "tested", "", botState.foundGroups)
                      EXCEPT !.n = tg.n]
       ELSE
          /\ scans' = [scans EXCEPT !.waiting = Tail(@),
                                     !.menus = @ \cup Menu(Head(scans.waiting),
                                                           botState.foundGroups)]
          /\ tg' = IF botState.foundGroups = << >>
                   THEN [Tg(TgAdminId, "timeout", "no groups", Head(scans.waiting), << >>)
                           EXCEPT !.n = tg.n]
                   ELSE [Tg(TgAdminId, "timeout", "buttons", Head(scans.waiting),
                            botState.foundGroups) EXCEPT !.n = tg.n]
    /\ UNCHANGED <<config, donators, donatorsProto, commandCooldowns, logs, stats, now, call,
                   outcome, appended>>
    /\ UNCHANGED conn

\* tgBot.action(/set_(.+)/) of the variant
TgActionAlt(uid, rank) ==
    /\ Launched
    /\ tg.n < MaxOps
    /\ IF ~isAdmin(uid) THEN
          /\ tg' = Tg(uid, "action", "denied", "", << >>)
          /\ chat' = << >>
          /\ UNCHANGED <<donators, donatorsProto, stats>>
       ELSE IF ~entity THEN
          /\ tg' = Tg(uid, "action", "offline", "", << >>)
          /\ chat' = << >>
          /\ UNCHANGED <<donators, donatorsProto, stats>>
       ELSE
          /\ chat' = << Line("effect", "/lp user parent set", botState.pendingPlayer,
                             rank, "") >>
          /\ addDonatorAlt(botState.pendingPlayer, rank)
          /\ tg' = Tg(uid, "action", "sent", botState.pendingPlayer, << >>)
    /\ UNCHANGED <<config, commandCooldowns, logs, now, call, outcome, appended>>
    /\ UNCHANGED <<botState, scans>>
    /\ UNCHANGED conn

\* one update delivered to a handler of the variant, sent by one of users:
\* a command of cmds with the words nicks and ranks, /testgroups, one of
\* the texts broadcasts, a handle of texts or a press of one of buttons
TelegramAlt(users, cmds, nicks, ranks, texts, broadcasts, buttons) ==
    \/ \E uid \in users, cmd \in cmds, nick \in nicks, rawRank \in ranks :
          TgCommandAlt(uid, cmd, nick, rawRank)
    \/ \E uid \in users : TgTestGroups(uid)
    \/ \E uid \in users, text \in broadcasts : TgBroadcast(uid, text)
    \/ \E uid \in users, text \in texts : TgTextAlt(uid, text)
    \/ \E uid \in users, rank \in buttons : TgActionAlt(uid, rank)

\* every command of the variant that takes no part in a flow, with or
\* without a handle and a rank word; /broadcastmsg bare, followed by a
\* blank and followed by a message; a text too short for a handle and one
\* that is a handle; every rank button
OnTelegramAlt ==
    TelegramAlt(TgUsers,
                {"start", "status", "commands", "banned", "logs", "stats", "adddonator",
                 "removedonator", "donators", "setadmin", "removeadmin", "reloadcmds", "help"},
                {"", "Alice", "voyagerplay"},
                {"", "vip", "GOLD"},
                {"B", "Alice"},
                {"/broadcastmsg", "/broadcastmsg ", "/broadcastmsg hi"},
                GroupNames)

\* a chat line of the listing reaches the 'message' handler of the variant
OnGroupLinesAlt == \E shape \in LineShapes, token \in LineTokens : OnGroupLineAlt(shape, token)

\* the command lines sent in this variant: the default administrator, a
\* donator and a handle without a record say an allowed name, a blocked
\* one and one that only executeAdminCommand knows
OnCommandLineAlt ==
    CommandLineAlt({"voyagerplay", "Alice", "constructor"}, {"heal", "op", "say"}, {<< "hi" >>})

\* the updates of the operator explored next to the player commands: the
\* commands that write the store, /testgroups, an announcement, a handle
\* and a rank button
OnOperatorAlt ==
    TelegramAlt({TgAdminId}, {"adddonator", "removedonator", "setadmin", "removeadmin"},
                {"Alice"}, {"vip"}, {"Alice"}, {"/broadcastmsg hi"}, {"vip"})

\* the listing line explored next to the player commands
OnListingAlt == OnGroupLineAlt("dash", "vip")

\* the player commands explored next to the updates of the operator: an
\* allowed name sent by the default administrator and by a donator
OnOpsCommandLineAlt == CommandLineAlt({"voyagerplay", "Alice"}, {"heal"}, {<< >>})

-----------------------------------------------------------------------------
(* The control channel of the variant at src/bot.js:1696-2104.  botState    *)
(* holds two more fields, lastGroupListTime and the Map commandCooldown,    *)
(* which checkCooldown reads and writes; the variant has no Database, and   *)
(* its rank button writes no record.  Each step below is one run of a       *)
(* handler the module registers with Telegraf.                              *)

ignoreListLegacy == {"lp", "luckperms", "groups", "info", "usage", "default", "error",
                     "players"}

\* the cooldownMs the text and the button handler pass to checkCooldown
InputCooldownMs == 2000

\* the template `set_${rank}` on the group names of this model
SetCommand(rank) ==
    CASE rank = "vip" -> "set_vip"
      [] rank = "Default" -> "set_Default"
      [] rank = "Groups" -> "set_Groups"

\* the return value of checkCooldown, the clock read at t; the key
\* `${userId}:${command}` is the pair of its parts.  Date.now() is far
\* above cooldownMs, so a key without entry (lastRun 0) passes.
checkCooldown(userId, command, cooldownMs, t) ==
    LET key == << userId, command >> IN
    IF key \in DOMAIN botState.commandCooldown
    THEN ~(t - botState.commandCooldown[key] < cooldownMs)
    ELSE TRUE

\* botState.commandCooldown after a call of checkCooldown that passed
CooldownSet(userId, command, t) ==
    Extended(botState.commandCooldown, << userId, command >>, t)

\* the clock advances between handler runs of the variant, by the length
\* of the window checkCooldown is called with
TickLegacy ==
    /\ now + InputCooldownMs <= MaxTime * 1000
    /\ now' = now + InputCooldownMs
    /\ UNCHANGED <<config, donators, donatorsProto, commandCooldowns, logs, stats, chat, call,
                   outcome, appended>>
    /\ UNCHANGED <<conn, ctl>>

\* tgBot.start and the tgBot.command handlers of the variant
TgCommandLegacy(uid, cmd) ==
    /\ tg.n < MaxOps
    /\ chat' = << >>
    /\ tg' = IF ~isAdmin(uid) THEN Tg(uid, cmd, "denied", "", << >>)
             ELSE IF cmd = "players" /\ ~entity THEN Tg(uid, cmd, "offline", "", << >>)
             ELSE Tg(uid, cmd, cmd, "", << >>)
    /\ UNCHANGED <<config, donators, donatorsProto, commandCooldowns, logs, stats, now, call,
                   outcome, appended>>
    /\ UNCHANGED <<botState, scans>>
    /\ UNCHANGED conn

\* tgBot.on('text') of the variant up to its await.  The clock is read by
\* checkCooldown and again for lastGroupListTime.
TgTextLegacy(uid, text) ==
    /\ tg.n < MaxOps
    /\ chat' = << >>
    /\ IF ~isAdmin(uid) THEN
          /\ tg' = Tg(uid, "text", "denied", "", << >>)
          /\ UNCHANGED <<botState, scans, now>>
       ELSE IF ~checkCooldown(uid, "text_input", InputCooldownMs, now) THEN
          /\ tg' = Tg(uid, "text", "wait", "", << >>)
          /\ UNCHANGED <<botState, scans, now>>
       ELSE IF Len(text) < 2 \/ Len(text) > 16 THEN
          /\ botState' = [botState EXCEPT !.commandCooldown = CooldownSet(uid, "text_input", now)]
          /\ tg' = Tg(uid, "text", "bad length", text, << >>)
          /\ UNCHANGED <<scans, now>>
       ELSE IF ~entity THEN
          /\ botState' = [botState EXCEPT !.commandCooldown = CooldownSet(uid, "text_input", now)]
          /\ tg' = Tg(uid, "text", "offline", text, << >>)
          /\ UNCHANGED <<scans, now>>
       ELSE
          \E gap \in Gaps :
             /\ botState' = [pendingPlayer |-> text, isCapturingGroups |-> TRUE,
                             foundGroups |-> << >>, lastGroupListTime |-> now + gap,
                             commandCooldown |-> CooldownSet(uid, "text_input", now)]
             /\ now' = now + gap
             /\ scans' = [scans EXCEPT !.replying = Append(@, text)]
             /\ tg' = Tg(uid, "text", "scanning", text, << >>)
    /\ UNCHANGED <<config, donators, donatorsProto, commandCooldowns, logs, stats, call, outcome,
                   appended>>
    /\ UNCHANGED conn

\* tgBot.on('text') of the variant after its await, inside try: the
\* listing request and the timeout
TgTextResumeLegacy ==
    \E i \in DOMAIN scans.replying :
       /\ chat' = << Line("effect", "/lp listgroups", "", "", "") >>
       /\ scans' = [scans EXCEPT !.replying = Without(@, i),
                                  !.waiting = Append(@, scans.replying[i])]
       /\ UNCHANGED <<config, donators, donatorsProto, commandCooldowns, logs, stats, now,
                      call, outcome, appended>>
       /\ UNCHANGED <<botState, tg>>
       /\ UNCHANGED conn

\* tgBot.on('text') of the variant when the awaited reply is rejected: the
\* catch block logs the error and replies; no listing request is sent, no
\* timeout is set and the capture flag stays as the handler set it
TgTextFailLegacy ==
    \E i \in DOMAIN scans.replying :
       /\ scans' = [scans EXCEPT !.replying = Without(@, i)]
       /\ tg' = [Tg(TgAdminId, "text", "error", scans.replying[i], << >>) EXCEPT !.n = tg.n]
       /\ chat' = << >>
       /\ UNCHANGED <<config, donators, donatorsProto, commandCooldowns, logs, stats, now,
                      call, outcome, appended>>
       /\ UNCHANGED botState
       /\ UNCHANGED conn

\* the callback of setTimeout(..., 3000) of the text handler of the variant
ScanTimeoutLegacy ==
    /\ scans.waiting # << >>
    /\ scans' = [scans EXCEPT !.waiting = Tail(@),
                               !.menus = @ \cup Menu(Head(scans.waiting), botState.foundGroups)]
    /\ botState' = [botState EXCEPT !.isCapturingGroups = FALSE]
    /\ chat' = << >>
    /\ tg' = IF botState.foundGroups = << >>
             THEN [Tg(TgAdminId, "timeout", "no groups", Head(scans.waiting), << >>)
                     EXCEPT !.n = tg.n]
             ELSE [Tg(TgAdminId, "timeout", "buttons", Head(scans.waiting),
                      botState.foundGroups) EXCEPT !.n = tg.n]
    /\ UNCHANGED <<config, donators, donatorsProto, commandCooldowns, logs, stats, now, call,
                   outcome, appended>>
    /\ UNCHANGED conn

\* tgBot.action(/set_(.+)/) of the variant: the line is sent to the game
\* server and no record is written
TgActionLegacy(uid, rank) ==
    /\ tg.n < MaxOps
    /\ IF ~isAdmin(uid) THEN
          /\ tg' = Tg(uid, "action", "denied", "", << >>)
          /\ chat' = << >>
          /\ UNCHANGED botState
       ELSE IF ~checkCooldown(uid, SetCommand(rank), InputCooldownMs, now) THEN
          /\ tg' = Tg(uid, "action", "wait", "", << >>)
          /\ chat' = << >>
          /\ UNCHANGED botState
       ELSE IF ~entity THEN
          /\ botState' = [botState EXCEPT
                            !.commandCooldown = CooldownSet(uid, SetCommand(rank), now)]
          /\ tg' = Tg(uid, "action", "offline", "", << >>)
          /\ chat' = << >>
       ELSE
          /\ botState' = [botState EXCEPT
                            !.commandCooldown = CooldownSet(uid, SetCommand(rank), now)]
          /\ chat' = << Line("effect", "/lp user parent set", botState.pendingPlayer,
                             rank, "") >>
          /\ tg' = Tg(uid, "action", "sent", botState.pendingPlayer, << >>)
    /\ UNCHANGED <<config, donators, donatorsProto, commandCooldowns, logs, stats, now, call,
                   outcome, appended>>
    /\ UNCHANGED scans
    /\ UNCHANGED conn

\* one update delivered to a handler of the variant: a command, a text
\* too short for a handle or one that is a handle, or a rank button
OnTelegramLegacy ==
    \/ \E uid \in TgUsers, cmd \in {"start", "status", "players", "help"} :
          TgCommandLegacy(uid, cmd)
    \/ \E uid \in TgUsers, text \in {"B", "Bob"} : TgTextLegacy(uid, text)
    \/ \E uid \in TgUsers, rank \in GroupNames : TgActionLegacy(uid, rank)

\* /-\s*([a-zA-Z0-9_]+)/ matches the dash lines only
legacyParser(found, shape, token) ==
    IF shape = "dash" /\ ToLower(token) \notin ignoreListLegacy /\ ~SeqContains(found, token)
    THEN Append(found, token)
    ELSE found

\* the 'message' handler of the variant: the group classifier, outside any
\* try/catch.  No statement of the handler raises on a chat line.
MessageLegacy(shape, token) ==
    /\ bot = "connected"
    /\ botState' = IF botState.isCapturingGroups
                   THEN [botState EXCEPT !.foundGroups = legacyParser(@, shape, token)]
                   ELSE botState
    /\ UNCHANGED <<config, donators, donatorsProto, commandCooldowns, logs, stats, now, chat,
                   call, outcome, appended>>
    /\ UNCHANGED <<scans, tg>>
    /\ UNCHANGED conn

OnMessageLegacy == \E shape \in LineShapes, token \in GroupNames : MessageLegacy(shape, token)

\* botState as the module creates it, no handler called yet
InitCtl ==
    /\ botState = [pendingPlayer |-> "", isCapturingGroups |-> FALSE, foundGroups |-> << >>]
    /\ scans = [replying |-> << >>, waiting |-> << >>, menus |-> {}]
    /\ tg = [from |-> 0, kind |-> "none", reply |-> "none", player |-> "",
             buttons |-> << >>, n |-> 0]

\* the process right after the module was loaded
InitConn ==
    /\ isOnline = FALSE
    /\ probes = << >>
    /\ probing = << >>
    /\ transitions = << >>
    /\ reconnectAttempts = 0
    /\ bot = "null"
    /\ entity = FALSE
    /\ orphans = [connecting |-> 0, connected |-> 0]
    /\ timers = [reconnect |-> 0, defer |-> 0, announce |-> 0]
    /\ started = FALSE
    /\ terminal = FALSE
    /\ ev = Ev("none", FALSE, FALSE, 0, 0, "none")

\* the process after initialize found the server online, the session
\* spawned and the timer of its 'spawn' handler fired
ConnectedConn ==
    /\ isOnline = TRUE
    /\ probes = << TRUE >>
    /\ probing = << >>
    /\ transitions = << "online" >>
    /\ reconnectAttempts = 0
    /\ bot = "connected"
    /\ entity = TRUE
    /\ orphans = [connecting |-> 0, connected |-> 0]
    /\ timers = [reconnect |-> 0, defer |-> 0, announce |-> 0]
    /\ started = TRUE
    /\ terminal = FALSE
    /\ ev = Ev("announce", FALSE, FALSE, 0, 0, "none")

-----------------------------------------------------------------------------
(* Initial states: the store as the constructor leaves it when data.json    *)
(* holds one donator and no log, and a store whose log is nearly full.      *)

NoCooldowns == [u \in {} |-> Null]

InitStore(lg, t) ==
    /\ config \in Policies
    /\ \E r \in AliceRanks :
          donators = [u \in {"Alice"} |-> [rank |-> r, joinedAt |-> -1]]
    /\ donatorsProto = PlainChain
    /\ commandCooldowns = NoCooldowns
    /\ logs = lg
    /\ stats = [totalCommands |-> 0, totalDonats |-> 1, blockedAttempts |-> 0]
    /\ now = t
    /\ chat = << >>
    /\ call = Null
    /\ outcome = Result("none", 0)
    /\ appended = 0
    /\ ConnectedConn
    /\ InitCtl

Init == InitStore(<< >>, 0)

Next == OnCommandLine \/ Tick

Spec == Init /\ [][Next]_vars

\* a log written by earlier runs: n entries, oldest first
OldLog(n) ==
    [i \in 1..n |-> [timestamp |-> i - n - 1, player |-> "Alice", command |-> "heal",
                     allowed |-> FALSE, reason |-> "UNKNOWN COMMAND"]]

\* the same store with a log that is one entry short of the cap, or at the
\* cap, read late in the explored time window
InitFullLog ==
    /\ \E n \in {LogCap - 1, LogCap} : InitStore(OldLog(n), MaxTime - 1)
    /\ config = PolicyPlain
    /\ donators["Alice"].rank = "VIP"

SpecFullLog == InitFullLog /\ [][Next]_vars

\* the connection machinery from process start, with an idle command pipeline
InitConnSpec ==
    /\ config = PolicyPlain
    /\ donators = [u \in {"Alice"} |-> [rank |-> "VIP", joinedAt |-> -1]]
    /\ donatorsProto = PlainChain
    /\ commandCooldowns = NoCooldowns
    /\ logs = << >>
    /\ stats = [totalCommands |-> 0, totalDonats |-> 1, blockedAttempts |-> 0]
    /\ now = 0
    /\ chat = << >>
    /\ call = Null
    /\ outcome = Result("none", 0)
    /\ appended = 0
    /\ InitConn
    /\ InitCtl

NextConn ==
    \/ Startup
    \/ StartupResume
    \/ Poll
    \/ PollResume
    \/ TimerFire
    \/ Spawn
    \/ Announce
    \/ OnPlayerJoined
    \/ End

SpecConn == InitConnSpec /\ [][NextConn]_vars

\* the same machinery with its schedulers: setInterval fires the poll every
\* 30 s for as long as the process runs, a probe settles within 5000 ms (its
\* socket connects or fails, or the timer of check() fires), and a timer set
\* by setTimeout(createMCBot, ...) fires once its delay has passed
SpecConnFair ==
    /\ InitConnSpec
    /\ [][NextConn]_vars
    /\ WF_vars(StartupResume)
    /\ WF_vars(Poll)
    /\ WF_vars(PollResume)
    /\ WF_vars(TimerFire)

\* botState as the module of the variant at src/bot.js:1696-2104 creates it
InitCtlLegacy ==
    /\ botState = [pendingPlayer |-> "", isCapturingGroups |-> FALSE, foundGroups |-> << >>,
                   lastGroupListTime |-> 0, commandCooldown |-> << >>]
    /\ scans = [replying |-> << >>, waiting |-> << >>, menus |-> {}]
    /\ tg = [from |-> 0, kind |-> "none", reply |-> "none", player |-> "",
             buttons |-> << >>, n |-> 0]

\* the variant right after its module was loaded; it has no policy table
\* and no record store, so these variables never change
InitLegacy ==
    /\ config = PolicyPlain
    /\ donators = [u \in {"Alice"} |-> [rank |-> "VIP", joinedAt |-> -1]]
    /\ donatorsProto = PlainChain
    /\ commandCooldowns = NoCooldowns
    /\ logs = << >>
    /\ stats = [totalCommands |-> 0, totalDonats |-> 1, blockedAttempts |-> 0]
    /\ now = 0
    /\ chat = << >>
    /\ call = Null
    /\ outcome = Result("none", 0)
    /\ appended = 0
    /\ InitConn
    /\ InitCtlLegacy

NextLegacy ==
    \/ StartupLegacy
    \/ TimerFireLegacy
    \/ SpawnLegacy
    \/ Announce
    \/ OnPlayerEventLegacy
    \/ EndLegacy
    \/ OnMessageLegacy
    \/ OnTelegramLegacy
    \/ TgTextResumeLegacy
    \/ TgTextFailLegacy
    \/ ScanTimeoutLegacy
    \/ TickLegacy

\* the script variant without a prober, from process start
SpecLegacy == InitLegacy /\ [][NextLegacy]_vars

\* the command pipeline under a policy document without the ranks table
InitErr ==
    /\ config = PolicyNoRanks
    /\ \E r \in AliceRanks :
          donators = [u \in {"Alice"} |-> [rank |-> r, joinedAt |-> -1]]
    /\ donatorsProto = PlainChain
    /\ commandCooldowns = NoCooldowns
    /\ logs = << >>
    /\ stats = [totalCommands |-> 0, totalDonats |-> 1, blockedAttempts |-> 0]
    /\ now = 0
    /\ chat = << >>
    /\ call = Null
    /\ outcome = Result("none", 0)
    /\ appended = 0
    /\ ConnectedConn
    /\ InitCtl

SpecErr == InitErr /\ [][Next]_vars

\* the process after initialize found the server offline
OfflineConn ==
    /\ isOnline = FALSE
    /\ probes = << FALSE >>
    /\ probing = << >>
    /\ transitions = << >>
    /\ reconnectAttempts = 0
    /\ bot = "null"
    /\ entity = FALSE
    /\ orphans = [connecting |-> 0, connected |-> 0]
    /\ timers = [reconnect |-> 0, defer |-> 0, announce |-> 0]
    /\ started = TRUE
    /\ terminal = FALSE
    /\ ev = Ev("startup", FALSE, FALSE, 0, 0, "none")

\* the control channel, with the game session connected or never created
InitTg ==
    /\ config = PolicyPlain
    /\ donators = [u \in {"Alice"} |-> [rank |-> "VIP", joinedAt |-> -1]]
    /\ donatorsProto = PlainChain
    /\ commandCooldowns = NoCooldowns
    /\ logs = << >>
    /\ stats = [totalCommands |-> 0, totalDonats |-> 1, blockedAttempts |-> 0]
    /\ now = 0
    /\ chat = << >>
    /\ call = Null
    /\ outcome = Result("none", 0)
    /\ appended = 0
    /\ ConnectedConn \/ OfflineConn
    /\ InitCtl

NextTg ==
    \/ OnTelegram
    \/ TgTextResume
    \/ TgTextFail
    \/ ScanTimeout
    \/ \E g \in GroupNames : OnGroupLine(g)

SpecTg == InitTg /\ [][NextTg]_vars

\* the command pipeline under the policy document PolicyCooldowns
InitCooldowns ==
    /\ config = PolicyCooldowns
    /\ donators = [u \in {"Alice"} |-> [rank |-> "VIP", joinedAt |-> -1]]
    /\ donatorsProto = PlainChain
    /\ commandCooldowns = NoCooldowns
    /\ logs = << >>
    /\ stats = [totalCommands |-> 0, totalDonats |-> 1, blockedAttempts |-> 0]
    /\ now = 0
    /\ chat = << >>
    /\ call = Null
    /\ outcome = Result("none", 0)
    /\ appended = 0
    /\ ConnectedConn
    /\ InitCtl

SpecCooldowns == InitCooldowns /\ [][Next]_vars

\* the process of the variant at src/bot.js:2105-3231 when its module is
\* about to be loaded: the store holds what data.json holds, written by an
\* earlier run that had the donator Alice with the administrator flag as
\* given and the cooldown records cds
ProcessStartAlt(flag, cds) ==
    /\ config = PolicyPlain
    /\ donators = [u \in {"Alice"} |-> [rank |-> "VIP", joinedAt |-> -1, isAdmin |-> flag]]
    /\ donatorsProto = PlainChain
    /\ commandCooldowns = cds
    /\ logs = << >>
    /\ stats = [totalCommands |-> 0, totalDonats |-> 1, blockedAttempts |-> 0]
    /\ now = 0
    /\ chat = << >>
    /\ call = Null
    /\ outcome = ResultAlt("none", 0, "none")
    /\ appended = 0
    /\ InitConn
    /\ InitCtl

\* the command pipeline of the variant from the load of its module, on a
\* store in which the operator had or had not set the flag of Alice and
\* which holds no cooldown record or the one an earlier run wrote for Alice
\* one millisecond before this process started, the command being heal
\* (2 ms in PolicyPlain)
InitAlt ==
    \E flag \in BOOLEAN,
       cds \in {NoCooldowns, [u \in {"Alice"} |-> [lastCommand |-> -1, expiresAt |-> 1]]} :
       ProcessStartAlt(flag, cds)

NextAlt ==
    \/ StartupAlt
    \/ StartupResumeAlt
    \/ PollAlt
    \/ PollResumeAlt
    \/ TimerFireAlt
    \/ SpawnAlt
    \/ AnnounceAlt
    \/ OnPlayerJoinedAlt
    \/ EndAlt
    \/ OnCommandLineAlt
    \/ Tick

SpecAlt == InitAlt /\ [][NextAlt]_vars

\* the control channel of the variant and its classifier, from the load of
\* the module
NextTgAlt ==
    \/ StartupAlt
    \/ StartupResumeAlt
    \/ PollAlt
    \/ PollResumeAlt
    \/ TimerFireAlt
    \/ SpawnAlt
    \/ AnnounceAlt
    \/ OnPlayerJoinedAlt
    \/ EndAlt
    \/ OnTelegramAlt
    \/ TgTextResumeAlt
    \/ TgTextFailAlt
    \/ ScanTimeoutAlt
    \/ OnGroupLinesAlt

SpecTgAlt == ProcessStartAlt(FALSE, NoCooldowns) /\ [][NextTgAlt]_vars

\* player commands and the updates of the operator on one store of the
\* variant, from the load of the module; logged commands, updates and
\* clock ticks are explored while fewer than MaxInputsOps have happened
NextOpsAlt ==
    \/ StartupAlt
    \/ StartupResumeAlt
    \/ PollAlt
    \/ PollResumeAlt
    \/ TimerFireAlt
    \/ SpawnAlt
    \/ AnnounceAlt
    \/ OnPlayerJoinedAlt
    \/ EndAlt
    \/ (tg.n + appended + now < MaxInputsOps /\ OnOpsCommandLineAlt)
    \/ (tg.n + appended + now < MaxInputsOps /\ OnOperatorAlt)
    \/ TgTextResumeAlt
    \/ TgTextFailAlt
    \/ ScanTimeoutAlt
    \/ OnListingAlt
    \/ (tg.n + appended + now < MaxInputsOps /\ Tick)

SpecOpsAlt == ProcessStartAlt(FALSE, NoCooldowns) /\ [][NextOpsAlt]_vars

\* the command pipeline when the operator has granted the tier ADMIN to a
\* handle that is not in GAME_ADMINS (rank button set_ADMIN)
InitAdminRank ==
    /\ config = PolicyAdminRank
    /\ donators = [u \in {"Alice"} |-> [rank |-> "ADMIN", joinedAt |-> -1]]
    /\ donatorsProto = PlainChain
    /\ commandCooldowns = NoCooldowns
    /\ logs = << >>
    /\ stats = [totalCommands |-> 0, totalDonats |-> 1, blockedAttempts |-> 0]
    /\ now = 0
    /\ chat = << >>
    /\ call = Null
    /\ outcome = Result("none", 0)
    /\ appended = 0
    /\ ConnectedConn
    /\ InitCtl

SpecAdminRank == InitAdminRank /\ [][Next]_vars

\* the command pipeline with two donators
InitTwoDonators ==
    /\ config = PolicyPlain
    /\ donators = [u \in {"Alice", "Bob"} |-> [rank |-> "VIP", joinedAt |-> -1]]
    /\ donatorsProto = PlainChain
    /\ commandCooldowns = NoCooldowns
    /\ logs = << >>
    /\ stats = [totalCommands |-> 0, totalDonats |-> 2, blockedAttempts |-> 0]
    /\ now = 0
    /\ chat = << >>
    /\ call = Null
    /\ outcome = Result("none", 0)
    /\ appended = 0
    /\ ConnectedConn
    /\ InitCtl

SpecTwoDonators == InitTwoDonators /\ [][Next]_vars

\* player commands and operator actions on one store
OpCommands == {"adddonator", "removedonator"}

OperatorAction ==
    /\ tg.n < MaxOps
    /\ \/ \E cmd \in OpCommands, nick \in TgNicks, rawRank \in TgRanks :
             TgCommand(TgAdminId, cmd, nick, rawRank)
       \/ \E rank \in GroupNames : TgAction(TgAdminId, rank)

\* the command names sent next to the operator actions: an allowed and a
\* blocked one
OpsNames == {"heal", "op"}

\* the speakers next to the operator actions: an administrator, a donator,
\* a handle the operator adds, and the handle whose record the operator's
\* command puts in the place of the prototype
OpsPlayers == {"voyagerplay", "Alice", "Bob", "__proto__"}

NextOps == CommandLine(OpsPlayers, OpsNames, {<< >>}) \/ Tick \/ OperatorAction

SpecOps == InitTg /\ [][NextOps]_vars

TypeOK ==
    /\ now \in 0..MaxTime
    /\ appended \in 0..MaxAppends
    /\ Len(logs) <= LogCap

-----------------------------------------------------------------------------
(* Vocabulary of the properties, read directly from the state *)

\* a step of handlePlayerCommand: the clock stands still and call' holds
\* the arguments of the call
CallStep == call' # call \/ appended' # appended

Speaker == call'.player
Command == call'.command

HasRecord(p) == p \in DOMAIN donators

BlockedEntry(c) ==
    c \in DOMAIN config.bannedCommands /\ config.bannedCommands[c].blocked

EnabledEntry(c) ==
    c \in DOMAIN config.allowedCommands /\ config.allowedCommands[c].enabled

LevelOf(r) == IF r \in DOMAIN config.ranks THEN config.ranks[r].level ELSE 0

DurationOf(c) ==
    IF "cooldown" \in DOMAIN config.allowedCommands[c]
    THEN config.allowedCommands[c].cooldown ELSE DefaultCooldownMs

HasEffect(ch) == \E i \in DOMAIN ch : ch[i].kind = "effect"

NoEffect(ch) == \A i \in DOMAIN ch : ch[i].kind # "effect"

ErrorReply(ch) == Len(ch) = 1 /\ ch[1].kind = "error"

UnexpiredCooldown(p) ==
    p \in DOMAIN commandCooldowns /\ now <= commandCooldowns[p].expiresAt

\* the log lg2 is the log lg1 after one more entry e was appended and the
\* oldest entries beyond the cap were dropped
AppendedOne(lg1, lg2, e) ==
    LET all == Append(lg1, e)
        drop == IF Len(all) > LogCap THEN Len(all) - LogCap ELSE 0
    IN /\ Len(lg2) = Len(all) - drop
       /\ \A i \in 1..Len(lg2) : lg2[i] = all[i + drop]

-----------------------------------------------------------------------------
\* C1: a speaker who is not an administrator and has no donator record is
\* rejected as "not a donator" whatever the command; no effect line is sent
\* and no cooldown record of any handle is created or changed.
C1_NonDonatorRejected ==
    [][ (CallStep /\ Speaker \notin GAME_ADMINS /\ ~HasRecord(Speaker))
        => /\ outcome'.path = "not a donator"
           /\ NoEffect(chat')
           /\ commandCooldowns' = commandCooldowns ]_vars

C1_Witness ==
    /\ outcome.path = "not a donator"
    /\ call.player \notin DOMAIN donators
    /\ call.player \notin GAME_ADMINS
    /\ DOMAIN commandCooldowns # {}

\* C2: for a non-administrator donator a name whose bannedCommands entry has
\* blocked = true is rejected as "blocked", also when the name has an enabled
\* allowedCommands entry and whatever the tier; no effect line is sent.
C2_BlockedFirst ==
    [][ (CallStep /\ Speaker \notin GAME_ADMINS /\ HasRecord(Speaker)
         /\ BlockedEntry(Command))
        => /\ outcome'.path = "blocked"
           /\ NoEffect(chat') ]_vars

C2_Witness ==
    /\ outcome.path = "blocked"
    /\ EnabledEntry(call.command)
    /\ LevelOf(donators[call.player].rank)
         >= LevelOf(config.allowedCommands[call.command].requiredRank)

C4_Original ==
    [][ (CallStep /\ Speaker \notin GAME_ADMINS /\ HasRecord(Speaker)
         /\ ~EnabledEntry(Command))
        => outcome'.path = "unknown command" ]_vars

\* C4 amended: a name without an enabled allowedCommands entry and without a
\* bannedCommands entry that has blocked = true, sent by a non-administrator
\* who has a donator record, is rejected as "unknown command" whatever the
\* tier; no effect line is sent.
C4_UnknownCommand ==
    [][ (CallStep /\ Speaker \notin GAME_ADMINS /\ HasRecord(Speaker)
         /\ ~BlockedEntry(Command) /\ ~EnabledEntry(Command))
        => /\ outcome'.path = "unknown command"
           /\ NoEffect(chat') ]_vars

\* the rejected name has a policy entry, but a disabled one
C4_Witness ==
    /\ outcome.path = "unknown command"
    /\ call.command \in DOMAIN config.allowedCommands

\* the record setCooldown wrote for p in this call with duration d: its two
\* clock values, lastCommand and expiresAt - d, were read during the call in
\* that order
CooldownWritten(p, d) ==
    /\ p \in DOMAIN commandCooldowns'
    /\ call'.at <= commandCooldowns'[p].lastCommand
    /\ commandCooldowns'[p].lastCommand <= commandCooldowns'[p].expiresAt - d
    /\ commandCooldowns'[p].expiresAt - d <= call'.done

\* C5 as stated: cooldown round trip of one speaker.  An accepted command at
\* time t with configured duration d stores expiresAt = t + d, t being the
\* time the record keeps as lastCommand; a command of the speaker that
\* reaches the cooldown check before expiry is rejected and reports a
\* remaining time that is not negative; between two successive rejections
\* at different times the reported time strictly decreases; a command that
\* reaches the check after expiresAt is accepted and the old record is gone.
C5_Original ==
    [][ (CallStep /\ outcome'.path \in {"accepted", "on cooldown"})
        => LET p == Speaker
               had == p \in DOMAIN commandCooldowns
           IN /\ outcome'.path = "accepted"
                   => commandCooldowns'[p].expiresAt
                        = commandCooldowns'[p].lastCommand + DurationOf(Command)
              /\ (had /\ now < commandCooldowns[p].expiresAt)
                   => /\ outcome'.path = "on cooldown"
                      /\ commandCooldowns' = commandCooldowns
              /\ (had /\ outcome'.path = "on cooldown") => outcome'.timeLeft >= 0
              /\ (had /\ outcome.path = "on cooldown" /\ outcome'.path = "on cooldown"
                  /\ call.player = p /\ call'.done > call.done)
                   => outcome'.timeLeft < outcome.timeLeft
              /\ (had /\ now > commandCooldowns[p].expiresAt)
                   => outcome'.path = "accepted" ]_vars

\* C5 amended: an accepted command with configured duration d stores
\* expiresAt = t + d, where t is the clock value setCooldown reads for the
\* expiry, not before the one it stores as lastCommand; a command of the
\* speaker that reaches the cooldown check before expiry is rejected, leaves
\* the record alone and reports max(0, expiresAt - t'), t' being the clock
\* value getCooldownTimeLeft reads; between two successive rejections the
\* reported time never grows, and strictly decreases from one reading to a
\* later one while the later reading is not after expiresAt; a command that
\* reaches the check after expiresAt is accepted and the old record is
\* replaced by a new one.
C5_CooldownRoundTrip ==
    [][ (CallStep /\ outcome'.path \in {"accepted", "on cooldown"})
        => LET p == Speaker
               had == p \in DOMAIN commandCooldowns
           IN /\ outcome'.path = "accepted" => CooldownWritten(p, DurationOf(Command))
              /\ (had /\ now < commandCooldowns[p].expiresAt)
                   => /\ outcome'.path = "on cooldown"
                      /\ outcome'.timeLeft
                           = Max(0, commandCooldowns[p].expiresAt - call'.done)
                      /\ commandCooldowns' = commandCooldowns
              /\ (had /\ outcome'.path = "on cooldown") => outcome'.timeLeft >= 0
              /\ (had /\ outcome.path = "on cooldown" /\ outcome'.path = "on cooldown"
                  /\ call.player = p)
                   => /\ outcome'.timeLeft <= outcome.timeLeft
                      /\ (call'.done > call.done
                          /\ call'.done <= commandCooldowns[p].expiresAt)
                           => outcome'.timeLeft < outcome.timeLeft
              /\ (had /\ now > commandCooldowns[p].expiresAt)
                   => /\ outcome'.path = "accepted"
                      /\ commandCooldowns'[p].lastCommand >= now ]_vars

\* a second command of the speaker was accepted after the first cooldown ran out
C5_Witness ==
    /\ outcome.path = "accepted"
    /\ \E i \in DOMAIN logs :
          /\ logs[i].allowed
          /\ logs[i].player = call.player
          /\ logs[i].timestamp < call.at
    /\ commandCooldowns[call.player].lastCommand >= call.at
    /\ commandCooldowns[call.player].expiresAt
         > commandCooldowns[call.player].lastCommand + DurationOf(call.command)

OrdinaryCommands == {"give", "heal", "tpall", "gamemode", "effect", "fly", "speed"}

\* the store effects of an accepted command
AcceptedStoreEffects ==
    /\ DOMAIN commandCooldowns' = DOMAIN commandCooldowns \cup {Speaker}
    /\ \A u \in DOMAIN commandCooldowns \ {Speaker} :
          commandCooldowns'[u] = commandCooldowns[u]
    /\ CooldownWritten(Speaker, DurationOf(Command))
    /\ stats'.totalCommands = stats.totalCommands + 1
    /\ AppendedOne(logs, logs', logs'[Len(logs')])
    /\ logs'[Len(logs')].allowed = TRUE
    /\ logs'[Len(logs')].player = Speaker
    /\ logs'[Len(logs')].command = Command
    /\ stats'.blockedAttempts = stats.blockedAttempts
    /\ stats'.totalDonats = stats.totalDonats
    /\ donators' = donators

\* C6: every command of a non-administrator donator that passes the five
\* checks sends the command's effect line, creates the cooldown record with
\* the command's duration, adds 1 to the accepted counter and appends one
\* audit entry with outcome true, leaving the blocked counter and the
\* donators alone.
C6_AcceptedEffects ==
    [][ (CallStep /\ outcome'.path = "accepted")
        => (HasEffect(chat') /\ AcceptedStoreEffects) ]_vars

\* C7 as stated: a command of a speaker without a donator record gets a
\* rejection reply and leaves the whole record store as it was.
C7_Original ==
    [][ (CallStep /\ Speaker \notin GAME_ADMINS /\ ~HasRecord(Speaker))
        => (ErrorReply(chat') /\ store' = store) ]_vars

\* C7 read with the audit entry of a rejection: a command of a speaker
\* without a donator record gets a
\* rejection reply; donators, cooldowns and all counters are as before and
\* the audit log gains exactly one entry, with outcome false.
C7_NonDonatorFrame ==
    [][ (CallStep /\ Speaker \notin GAME_ADMINS /\ ~HasRecord(Speaker))
        => /\ ErrorReply(chat')
           /\ donators' = donators
           /\ commandCooldowns' = commandCooldowns
           /\ stats' = stats
           /\ AppendedOne(logs, logs', logs'[Len(logs')])
           /\ logs'[Len(logs')].allowed = FALSE
           /\ logs'[Len(logs')].player = Speaker ]_vars

\* Bob, who has no record, sent !give with arguments
C7_Witness ==
    /\ outcome.path = "not a donator"
    /\ call.player = "Bob"
    /\ call.command = "give"
    /\ call.args # << >>
    /\ logs[Len(logs)].player = "Bob"

\* C8: a command of a listed administrator is never rejected by the donator,
\* blocked, policy, rank or cooldown checks: it goes straight to execution,
\* so a known command with its arguments has its effect line sent whatever
\* the policy and the store hold.
C8_AdminBypass ==
    [][ (CallStep /\ Speaker \in GAME_ADMINS)
        => /\ outcome'.path = "admin"
           /\ chat' = executeCommand(Speaker, Command, call'.args, "ADMIN")
           /\ (Command \in OrdinaryCommands \cup {"say"} /\ call'.args # << >>)
                => HasEffect(chat') ]_vars

\* an administrator without a donator record ran a command that the policy
\* blocks
C8_Witness ==
    /\ outcome.path = "admin"
    /\ call.player \notin DOMAIN donators
    /\ BlockedEntry(call.command)
    /\ HasEffect(chat)

\* C9: give or effect sent with empty arguments by a donator who passes
\* authorization gets the usage reply, and the speaker's cooldown record and
\* the accepted-command counter are as before the call.
C9_UsageErrorFree ==
    [][ (CallStep /\ outcome'.path = "accepted"
         /\ Command \in {"give", "effect"} /\ call'.args = << >>)
        => /\ ErrorReply(chat')
           /\ commandCooldowns' = commandCooldowns
           /\ stats'.totalCommands = stats.totalCommands ]_vars

\* C10: the audit log never holds more than 1000 entries, and every addLog
\* call puts its entry at the end while the log loses, from the front, what
\* exceeds 1000: the retained entries are the most recent ones in insertion
\* order, and nothing else ever changes the log.
C10_LogFifo ==
    [][ /\ Len(logs') <= LogCap
        /\ appended' = appended => logs' = logs
        /\ appended' # appended =>
             /\ Len(logs') >= 1
             /\ logs'[Len(logs')].timestamp = call'.done
             /\ logs'[Len(logs')].player = Speaker
             /\ logs'[Len(logs')].command = Command
             /\ AppendedOne(logs, logs', logs'[Len(logs')])
             /\ Len(logs) = LogCap =>
                  logs' = Append(Tail(logs), logs'[Len(logs')]) ]_vars

\* the log is full, its oldest entry was dropped and the newest is from
\* this run
C10_Witness ==
    /\ Len(logs) = LogCap
    /\ logs[1].timestamp > 0 - LogCap
    /\ logs[LogCap].timestamp >= 0
    /\ appended >= 1

-----------------------------------------------------------------------------
(* Claims about the game session and the reachability prober.              *)

\* the step is one run of the 'end' handler, of the 'spawn' handler, of
\* createMCBot
EndStep == conn' # conn /\ ev'.kind = "end"
SpawnStep == conn' # conn /\ ev'.kind = "spawn"
CreateStep == conn' # conn /\ ev'.called

\* C11: at every moment at most one session created by createMCBot is
\* live (connecting or connected), whatever the interleaving of the startup
\* call, the polling timer, the deferral timer and the reconnect timers.
C11_SingleSession == LiveCount <= 1

\* C12: once the 'end' handler has run with the retry counter at the
\* ceiling, createMCBot is not invoked again by any timer or handler.
C12_NoAttemptAfterCeiling == [][terminal => ~CreateStep]_vars

\* C13: every 'end' event that occurs while the retry counter is at the
\* ceiling sends a terminal-failure message to the operator on Telegram.
C13_TerminalNotified ==
    [][(EndStep /\ reconnectAttempts = MAX_RECONNECT) => ev'.notified = "terminal"]_vars

\* C14: after every 'spawn' event the retry counter is 0, whatever its
\* value before, so the next MAX_RECONNECT disconnects are all retried.
C14_SpawnResets ==
    [][SpawnStep => (reconnectAttempts' = 0 /\ MAX_RECONNECT - reconnectAttempts' = 20)]_vars

C14_Witness ==
    /\ ev.kind = "spawn"
    /\ ev.was >= 2
    /\ reconnectAttempts = 0

\* the stored status before probe i: the result of probe i - 1, offline
\* before the first probe
StatusBefore(i) == IF i = 1 THEN FALSE ELSE probes[i - 1]

\* the probes whose result differs from the status stored before them
Flips == {i \in 1..Len(probes) : probes[i] # StatusBefore(i)}

\* C15: updateStatus logs a transition exactly when the probe result
\* differs from the stored status: the transitions logged are as many as the
\* flips in the probe history and alternate online, offline, online, ...;
\* isOnline equals the latest probe result and is offline before any probe.
C15_Transitions ==
    /\ isOnline = StatusBefore(Len(probes) + 1)
    /\ Len(transitions) = Cardinality(Flips)
    /\ \A k \in 1..Len(transitions) :
          transitions[k] = IF k % 2 = 1 THEN "online" ELSE "offline"

\* one success then three failures: one online and one offline transition;
\* and failures followed by one success: exactly one online transition
C15_Witness ==
    \/ probes = << TRUE, FALSE, FALSE, FALSE >> /\ transitions = << "online", "offline" >>
    \/ probes = << FALSE, FALSE, FALSE, TRUE >> /\ transitions = << "online" >>

\* the step is one call of a control-channel handler
TgStep == tg'.n # tg.n

\* C16: every control-channel interaction (start, a slash command, a text
\* entry, a rank button) from an identity other than the operator gets the
\* fixed refusal and changes nothing: donator records, counters, the
\* pending-flow state and its timers are as before and no line is sent to
\* the game server.
C16_NonOperatorRefused ==
    [][(TgStep /\ tg'.from # TgAdminId)
        => /\ tg'.reply = "denied"
           /\ donators' = donators
           /\ donatorsProto' = donatorsProto
           /\ stats' = stats
           /\ botState' = botState
           /\ scans' = scans
           /\ chat' = << >> ]_vars

\* a stranger pressed a rank button while the operator's flow was pending
C16_Witness ==
    /\ tg.from \in TgUsers \ {TgAdminId}
    /\ tg.kind = "action"
    /\ tg.reply = "denied"
    /\ botState.pendingPlayer # ""
    /\ botState.foundGroups # << >>
    /\ entity

RejectionPaths ==
    {"not a donator", "blocked", "unknown command", "insufficient rank", "on cooldown"}

\* the audit log is as before or has gained one entry of a refusal
AuditOnly ==
    \/ logs' = logs
    \/ /\ AppendedOne(logs, logs', logs'[Len(logs')])
       /\ logs'[Len(logs')].allowed = FALSE

\* C17 as stated: every rejection path of handlePlayerCommand sends a
\* reply and has no side effect other than an audit entry: donators,
\* cooldowns and all three counters are unchanged and no effect line is sent.
C17_Original ==
    [][ (CallStep /\ outcome'.path \in RejectionPaths)
        => /\ ErrorReply(chat')
           /\ donators' = donators
           /\ commandCooldowns' = commandCooldowns
           /\ stats' = stats
           /\ AuditOnly ]_vars

\* C17 amended: every rejection path sends one reply and no effect line and
\* leaves donators, cooldowns, the accepted-command counter and the donator
\* counter unchanged; the blocked path adds one to blockedAttempts, the
\* other paths leave it; the on-cooldown path writes no audit entry, the
\* other paths append exactly one, with outcome false.
C17_RejectionFrame ==
    [][ (CallStep /\ outcome'.path \in RejectionPaths)
        => /\ ErrorReply(chat')
           /\ donators' = donators
           /\ commandCooldowns' = commandCooldowns
           /\ stats' = [stats EXCEPT !.blockedAttempts =
                          IF outcome'.path = "blocked" THEN @ + 1 ELSE @]
           /\ IF outcome'.path = "on cooldown" THEN logs' = logs
              ELSE /\ AppendedOne(logs, logs', logs'[Len(logs')])
                   /\ logs'[Len(logs')].allowed = FALSE ]_vars

\* a blocked command was refused and counted after an earlier refusal
C17_Witness ==
    /\ outcome.path = "blocked"
    /\ stats.blockedAttempts = 1
    /\ Len(logs) = 2
    /\ ErrorReply(chat)

\* C18: an 'end' event with retry counter n < 20 makes the counter n + 1
\* and schedules exactly one reconnect, after min(5000 * (n + 1), 120000)
\* ms; an 'end' event with n = 20 schedules nothing and leaves the counter;
\* the counter stays within 0..20 and the delay never exceeds 120000 ms.
C18_Backoff ==
    [][ /\ reconnectAttempts \in 0..20
        /\ reconnectAttempts' \in 0..20
        /\ EndStep =>
             IF reconnectAttempts < 20
             THEN /\ reconnectAttempts' = reconnectAttempts + 1
                  /\ timers' = [timers EXCEPT !.reconnect = @ + 1]
                  /\ ev'.scheduled = 1
                  /\ ev'.delay = IF 5000 * (reconnectAttempts + 1) <= 120000
                                 THEN 5000 * (reconnectAttempts + 1) ELSE 120000
                  /\ ev'.delay <= 120000
             ELSE /\ reconnectAttempts' = reconnectAttempts
                  /\ timers' = timers
                  /\ ev'.scheduled = 0 ]_vars

\* C19: a session is created only when the last known status of the prober
\* is online; createMCBot running while the status is offline creates no
\* session and schedules exactly one retry of itself after 30000 ms.
C19_OnlineOnly ==
    [][ CreateStep =>
          IF isOnline'
          THEN ev'.created
          ELSE /\ ~ev'.created
               /\ bot' = bot
               /\ orphans' = orphans
               /\ ev'.scheduled = 1
               /\ ev'.delay = 30000
               /\ timers'.defer + timers'.reconnect =
                    timers.defer + timers.reconnect + 1
                      - (IF ev'.kind = "timer" THEN 1 ELSE 0) ]_vars

\* the step is one run of a 'message' handler in which an error was raised
ErrorStep == outcome'.path = "error" /\ (outcome' # outcome \/ call' # call \/ bot' # bot)

\* C20: no error raised while a chat message is handled leaves the
\* 'message' handler: it is caught there, the session stays connected and
\* the handler stays attached for the next message.
C20_ErrorsContained ==
    [][ ErrorStep => (bot = "connected" /\ bot' = "connected" /\ entity' = entity) ]_vars

\* a command raised an error after an earlier command had been refused, and
\* the session is connected
C20_Witness ==
    /\ outcome.path = "error"
    /\ call # Null
    /\ Len(logs) = 1
    /\ bot = "connected"
    /\ entity

-----------------------------------------------------------------------------
(* Claims about the rank-assignment flow.                                   *)

\* the handles of the flows whose timer has not fired: those waiting for it,
\* then those suspended at their reply
PendingFlows == scans.waiting \o scans.replying

\* the operator entered a valid handle while the session was connected
TextAccepted(text) ==
    /\ TgStep
    /\ tg'.kind = "text"
    /\ tg'.from = TgAdminId
    /\ entity
    /\ tg'.player = text
    /\ Len(text) >= 2 /\ Len(text) <= 16

\* C21: there is one pending-flow record: a handle entered by the operator
\* while an earlier flow is pending starts a flow all the same, replaces
\* pendingPlayer and empties the found-list; pendingPlayer is always the
\* handle of the flow started last.
C21_SingleFlowRecord ==
    [][ IF \E text \in TgTexts : TextAccepted(text)
        THEN /\ tg'.reply = "scanning"
             /\ botState'.pendingPlayer = tg'.player
             /\ botState'.foundGroups = << >>
             /\ scans'.replying = Append(scans.replying, tg'.player)
        ELSE botState'.pendingPlayer = botState.pendingPlayer ]_vars

\* Carol was entered while the flow for Bob was pending with a group found
C21_Witness ==
    /\ Len(PendingFlows) = 2
    /\ PendingFlows[1] = "Bob"
    /\ botState.pendingPlayer = "Carol"
    /\ tg.kind = "text"
    /\ tg.reply = "scanning"
    /\ botState.foundGroups = << >>

\* C22: every flow has its whole capture window: while the timer of a
\* started flow has not fired, the capture flag is set, also when another
\* flow was started in between.
C22_FullWindow == scans.waiting # << >> => botState.isCapturingGroups

\* C23: every started capture window ends: whenever the capture flag is
\* set, the timer that will clear it is pending, or the flow that set it is
\* about to set that timer.
C23_WindowHasTimer == botState.isCapturingGroups => PendingFlows # << >>

\* C24: the found-list changes only in a step where the capture flag is set,
\* never holds the same token twice and never holds a token whose lower-case
\* form is in the stoplist of non-rank tokens, under every message handler
NoDuplicates(q) == \A i, j \in DOMAIN q : q[i] = q[j] => i = j

NoStoplisted(q) == \A i \in DOMAIN q : ToLower(q[i]) \notin ignoreList

C24_FoundList ==
    [][ /\ botState'.foundGroups # botState.foundGroups
           => botState.isCapturingGroups \/ botState'.isCapturingGroups
        /\ NoDuplicates(botState'.foundGroups)
        /\ NoStoplisted(botState'.foundGroups) ]_vars

\* C25: no step lowers totalCommands, totalDonats or blockedAttempts, and no
\* step of a player command or an operator action raises one of them by more
\* than 1
CounterNames == {"totalCommands", "totalDonats", "blockedAttempts"}

C25_CountersGrow ==
    [][ \A c \in CounterNames : stats'[c] - stats[c] \in {0, 1} ]_vars

C25_Witness ==
    /\ stats.totalCommands = 1
    /\ stats.blockedAttempts = 1
    /\ stats.totalDonats = 2
    /\ tg.n = 1

\* C26: every cooldown record expires after the time of the command that
\* created it, whatever cooldown field the policy entry carries (a record is
\* never changed after its creation, so this is read from the state)
C26_ExpiryAfterCommand ==
    \A u \in DOMAIN commandCooldowns :
       commandCooldowns[u].expiresAt > commandCooldowns[u].lastCommand

\* C27: every donator record is keyed by a handle of 2 to 16 characters and
\* carries a non-empty tier, whichever handler created it
C27_DonatorShape ==
    \A u \in DOMAIN donators :
       /\ Len(u) >= 2
       /\ Len(u) <= 16
       /\ donators[u].rank # ""

\* a step of an operator handler that writes donator records
OperatorWrites ==
    /\ TgStep
    /\ tg'.from = TgAdminId
    /\ tg'.kind \in {"adddonator", "removedonator", "action", "setadmin", "removeadmin"}

\* the step in which the module is loaded: no handler runs in it, and it
\* adds the default administrators that are missing
StartupAdds ==
    /\ ~started
    /\ started'
    /\ tg' = tg
    /\ call' = call
    /\ now' = now
    /\ DOMAIN donators' = DOMAIN donators \cup DefaultAdmins
    /\ \A u \in DOMAIN donators : donators'[u] = donators[u]
    /\ \A u \in DOMAIN donators' \ DOMAIN donators : donators'[u].isAdmin

\* C28 as stated: the donators map changes only in a step of an operator
\* action (add, remove, rank selection, set or remove admin)
C28_Original ==
    [][ donators' # donators => OperatorWrites ]_vars

\* C28 amended: the donators map changes only in a step of an operator action
\* or at process start, which adds the default administrators that are
\* missing and changes no other record; no player command and no passage of
\* time changes it
C28_OperatorOrStartup ==
    [][ donators' # donators => OperatorWrites \/ StartupAdds ]_vars

\* the constructor added the default administrator, a command of Alice was
\* accepted, the operator removed her record and her next command was
\* refused
C28_Witness ==
    /\ "voyagerplay" \in DOMAIN donators
    /\ donators["voyagerplay"].joinedAt >= 0
    /\ "Alice" \notin DOMAIN donators
    /\ tg.reply = "removed"
    /\ stats.totalCommands = 1
    /\ outcome.path = "not a donator"
    /\ Len(logs) = 2

\* the effect lines of the commands say, clear, weather, time and broadcast
AdminEffectTexts == {"say", "/clear", "/weather", "/time set", "broadcast"}

\* C29: a command of a speaker who is not an administrator never sends the
\* effect line of an administrator-only command, whatever the speaker's tier
\* and whatever the policy enables
C29_AdminOnlyEffects ==
    [][ (CallStep /\ call'.player \notin GAME_ADMINS)
        => \A i \in DOMAIN chat' :
              ~(chat'[i].kind = "effect" /\ chat'[i].text \in AdminEffectTexts) ]_vars

\* the call is by a speaker outside GAME_ADMINS who holds a donator record,
\* for a name whose bannedCommands entry has blocked = true
BlockedCall ==
    /\ call'.player \notin GAME_ADMINS
    /\ call'.player \in DOMAIN donators
    /\ call'.command \in DOMAIN config.bannedCommands
    /\ config.bannedCommands[call'.command].blocked = TRUE

\* C30: a call of handlePlayerCommand raises blockedAttempts by exactly 1 and
\* appends one audit entry with outcome false when a non-administrator
\* donator invokes a blocked name, and leaves the counter unchanged otherwise
C30_BlockedCounted ==
    [][ CallStep
        => IF BlockedCall
           THEN /\ stats'.blockedAttempts = stats.blockedAttempts + 1
                /\ appended' = appended + 1
                /\ Len(logs') = Len(logs) + 1
                /\ logs'[Len(logs')].allowed = FALSE
                /\ logs'[Len(logs')].player = call'.player
                /\ logs'[Len(logs')].command = call'.command
           ELSE stats'.blockedAttempts = stats.blockedAttempts ]_vars

\* a blocked attempt was counted, then a non-donator invoked the blocked name
\* and the counter stayed
C30_Witness ==
    /\ stats.blockedAttempts = 1
    /\ appended = 2
    /\ logs[1].reason = "BLACKLISTED"
    /\ logs[1].allowed = FALSE
    /\ call # Null
    /\ call.player \notin DOMAIN donators
    /\ call.player \notin GAME_ADMINS
    /\ call.command = "op"
    /\ outcome.path = "not a donator"

\* a rank button was pressed and its handler wrote the privilege line
PressSent == TgStep /\ tg'.kind = "action" /\ tg'.reply = "sent"

\* C31: when every menu rendered so far is the menu of one handle and the
\* operator presses one of its buttons set_<rank>, the privilege line and the
\* donator record are written for that handle with that rank, also when a
\* later flow has been started before the press
C31_ButtonOfItsMenu ==
    [][ PressSent
        => \A m \in scans.menus :
              ((\A k \in scans.menus : k.player = m.player) /\ chat'[1].a1 = m.rank)
              => /\ chat'[1].who = m.player
                 /\ m.player \in DOMAIN donators'
                 /\ donators'[m.player].rank = m.rank ]_vars

\* the call appended an audit entry with outcome true
SuccessLogged == appended' = appended + 1 /\ logs'[Len(logs')].allowed = TRUE

\* C32: a call that appends an audit entry with outcome true or raises
\* totalCommands has sent an effect line to the game server: a call in which
\* executeCommand only replied (usage, owner only, unknown command) records
\* neither
C32_SuccessMeansEffect ==
    [][ (CallStep /\ (SuccessLogged \/ stats'.totalCommands # stats.totalCommands))
        => \E i \in DOMAIN chat' : chat'[i].kind = "effect" ]_vars

\* C33: a call creates, replaces or removes only the speaker's own cooldown
\* record; a call that reaches the cooldown check while the speaker's own
\* record is unexpired is rejected, whichever command name it carries, and
\* no record of another speaker makes a call end on the cooldown reply
C33_CooldownPerSpeaker ==
    [][ CallStep
        => /\ \A u \in DOMAIN commandCooldowns \ {call'.player} :
                 /\ u \in DOMAIN commandCooldowns'
                 /\ commandCooldowns'[u] = commandCooldowns[u]
           /\ DOMAIN commandCooldowns' \subseteq DOMAIN commandCooldowns \cup {call'.player}
           /\ (outcome'.path \in {"accepted", "on cooldown"}
               /\ UnexpiredCooldown(call'.player))
                 => outcome'.path = "on cooldown"
           /\ (outcome'.path = "on cooldown" /\ HasRecord(call'.player))
                 => UnexpiredCooldown(call'.player) ]_vars

\* Alice's command was accepted, her next command of another name was
\* rejected, and Bob's command was accepted later while her record was unexpired
C33_Witness ==
    /\ DOMAIN commandCooldowns = {"Alice", "Bob"}
    /\ commandCooldowns["Alice"].lastCommand < commandCooldowns["Bob"].lastCommand
    /\ now <= commandCooldowns["Alice"].expiresAt
    /\ call # Null
    /\ call.player = "Bob"
    /\ outcome.path = "accepted"
    /\ logs[1].player = "Alice"
    /\ logs[1].command = "say"
    /\ logs[2].command = "heal"

Outcomes == {"admin", "not a donator", "blocked", "unknown command", "insufficient rank",
             "on cooldown", "accepted"}

\* the first condition that holds for the call, in the order of the checks
FirstCondition ==
    IF Speaker \in GAME_ADMINS THEN "admin"
    ELSE IF ~HasRecord(Speaker) THEN "not a donator"
    ELSE IF BlockedEntry(Command) THEN "blocked"
    ELSE IF ~EnabledEntry(Command) THEN "unknown command"
    ELSE IF LevelOf(donators[Speaker].rank)
              < LevelOf(config.allowedCommands[Command].requiredRank)
         THEN "insufficient rank"
    ELSE IF UnexpiredCooldown(Speaker) THEN "on cooldown"
    ELSE "accepted"

\* C34: every call of handlePlayerCommand ends in one of the seven outcomes,
\* the one of the first condition that holds in the fixed order, and appends
\* at most one audit entry
C34_OneOutcome ==
    [][ CallStep
        => /\ outcome'.path \in Outcomes
           /\ outcome'.path = FirstCondition
           /\ appended' - appended \in {0, 1}
           /\ Len(logs') - Len(logs) \in {0, 1} ]_vars

\* a step of handlePlayerCommand of the variant at src/bot.js:2569
CallStepAlt == CallStep /\ tg' = tg /\ call' # Null

\* the record of the handle carries the administrator flag
Flagged(p) == p \in DOMAIN donators /\ donators[p].isAdmin

\* C35: a command of an administrator takes the bypass and leaves the record
\* store as it was: no cooldown record is set, no counter is raised and no
\* audit entry is appended, also when the administrator has an unexpired
\* cooldown record
C35_BypassFrame ==
    [][ (CallStepAlt /\ Flagged(call'.player))
        => /\ outcome'.path = "admin"
           /\ donators' = donators
           /\ commandCooldowns' = commandCooldowns
           /\ stats' = stats
           /\ logs' = logs
           /\ appended' = appended ]_vars

\* the store holds Alice with the administrator flag and an unexpired
\* cooldown record; after a refused command of another speaker her command
\* was executed through the bypass
C35_Witness ==
    /\ call # Null
    /\ call.player = "Alice"
    /\ Flagged("Alice")
    /\ outcome.path = "admin"
    /\ HasEffect(chat)
    /\ UnexpiredCooldown("Alice")
    /\ Len(logs) = 1

\* C37: the administrator flag of a handle that keeps a donator record
\* changes only in a step of /setadmin or /removeadmin for that handle:
\* /adddonator and the rank button leave the flag of the handle as it was
C37_FlagBySetAdminOnly ==
    [][ \A u \in DOMAIN donators \cap DOMAIN donators' :
           donators'[u].isAdmin # donators[u].isAdmin
           => /\ TgStep
              /\ tg'.kind \in {"setadmin", "removeadmin"}
              /\ tg'.player = u ]_vars

\* the variable bot refers to no live session
Disconnected == started /\ bot \notin LiveStates

\* the poll has not used up the probes explored
PollingGoesOn == Len(probes) < MaxProbes

\* C36: when the stored status, which is the result of the latest probe,
\* stays online from some point on, every state in which the session is
\* disconnected with the retry counter below the ceiling and the poll still
\* running is followed by a state in which createMCBot has created a session
C36_ReconnectsEventually ==
    (<>[]isOnline)
    => ((Disconnected /\ reconnectAttempts < MAX_RECONNECT /\ PollingGoesOn)
          ~> (bot \in LiveStates))

\* a reconnect timer created a session after the server went down and came back
C36_Witness ==
    /\ bot = "connecting"
    /\ ev.kind = "timer"
    /\ ev.created
    /\ ev.was > 0
    /\ transitions = << "online", "offline", "online" >>

=============================================================================
